---- MODULE Spec2Model ----
(***************************************************************************)
(* Model of the human-api core: the embedding job queue                    *)
(* (src/workers/embedding.ts), the sentence chunker (core/chunk/chunker,   *)
(* kept in src/unnamed/part_008), the chunk processor                      *)
(* (src/core/chunk/processor.ts), MMR selection (src/core/mmr), the RAG    *)
(* pipeline (src/core/rag/pipeline.ts), the token budget                   *)
(* (src/unnamed/part_004), the AES-GCM envelope                            *)
(* (src/core/crypto/index.js) and key derivation (src/core/crypto/kdf.ts). *)
(*                                                                         *)
(* Time is counted in units of 1000 ms.  Texts are sequences of            *)
(* one-character strings.                                                  *)
(***************************************************************************)
EXTENDS Integers, Sequences, FiniteSets, TLC

VARIABLES
    queue,          \* EmbeddingWorker.queue: jobs waiting, in array order
    isProcessing,   \* EmbeddingWorker.isProcessing
    runs,           \* processQueue invocations past their splice: batch, results, loop index
    retryTimers,    \* pending setTimeout callbacks of handleJobFailure
    contTimers,     \* pending setTimeout(() => processQueue(), 1000), by remaining time
    nextId,         \* next job id handed out by addJob
    jobSuccess,     \* per job id: number of 'jobSuccess' events emitted
    jobFailed,      \* per job id: number of 'jobFailed' events emitted
    fails,          \* per job id: number of processJob promises that rejected
    fulfils,        \* per job id: number of processJob promises that fulfilled
    batchSize,      \* config.batchSize given to the constructor
    maxRetries,     \* config.maxRetries given to the constructor
    text,           \* chunker input text
    targetTokens,   \* chunker input
    overlapTokens,  \* chunker input
    op,             \* which chunker entry point produced `chunks`
    chunks,         \* chunker output
    args,           \* arguments of a call to a retrieval or crypto function
    ret             \* what that call returned or threw

workerVars == <<queue, isProcessing, runs, retryTimers, contTimers, nextId,
                jobSuccess, jobFailed, fails, fulfils, batchSize, maxRetries>>
chunkVars == <<text, targetTokens, overlapTokens, op, chunks>>
callVars == <<args, ret>>
vars == <<queue, isProcessing, runs, retryTimers, contTimers, nextId,
          jobSuccess, jobFailed, fails, fulfils, batchSize, maxRetries,
          text, targetTokens, overlapTokens, op, chunks, args, ret>>

----------------------------------------------------------------------------
(* Bounds and configuration *)

MaxJobs == 2
MaxPriority == 2
MaxBatchSize == 2
MaxRetries == 2
RetryDelay == 1
ContinueDelay == 1

JobIds == 1..MaxJobs
Priorities == 1..MaxPriority

Min(a, b) == IF a <= b THEN a ELSE b
Max(a, b) == IF a >= b THEN a ELSE b

RECURSIVE Pow2(_)
Pow2(n) == IF n <= 0 THEN 1 ELSE 2 * Pow2(n - 1)

----------------------------------------------------------------------------
(* EmbeddingWorker *)

\* Array.prototype.sort((a, b) => b.priority - a.priority): stable, descending
RECURSIVE InsertByPriority(_, _)
InsertByPriority(sorted, job) ==
    IF sorted = <<>> THEN <<job>>
    ELSE IF sorted[Len(sorted)].priority >= job.priority
         THEN Append(sorted, job)
         ELSE Append(InsertByPriority(SubSeq(sorted, 1, Len(sorted) - 1), job),
                     sorted[Len(sorted)])

RECURSIVE SortByPriority(_)
SortByPriority(q) ==
    IF q = <<>> THEN <<>>
    ELSE InsertByPriority(SortByPriority(SubSeq(q, 1, Len(q) - 1)), q[Len(q)])

\* Promise.allSettled(batch.map(job => this.processJob(job))) has resolved
AllSettled(r) == \A i \in 1..Len(r.batch) : r.results[i] # "pending"

\* the result loop of a processQueue invocation runs as a chain of microtasks,
\* which no timer callback interrupts
Handling == \E r \in runs : AllSettled(r)

CanStartNoFlag(q) == Len(q) > 0
\* processQueue, line 78: if (this.isProcessing || this.queue.length === 0) return;
CanStart(q) == ~isProcessing /\ Len(q) > 0

processQueueKeepsBatch(q) ==
    IF CanStart(q)
    THEN LET n == Min(batchSize, Len(q)) IN
         /\ isProcessing' = TRUE
         /\ runs' = runs \cup {[batch |-> SubSeq(q, 1, n),
                                results |-> [i \in 1..n |-> "pending"],
                                handled |-> 0]}
         /\ queue' = q
    ELSE /\ queue' = q
         /\ UNCHANGED <<isProcessing, runs>>
\* processQueue up to its first await, run on queue contents q
processQueue(q) ==
    IF CanStart(q)
    THEN LET n == Min(batchSize, Len(q)) IN
         /\ isProcessing' = TRUE
         /\ runs' = runs \cup {[batch |-> SubSeq(q, 1, n),
                                results |-> [i \in 1..n |-> "pending"],
                                handled |-> 0]}
         /\ queue' = SubSeq(q, n + 1, Len(q))
    ELSE /\ queue' = q
         /\ UNCHANGED <<isProcessing, runs>>

AddJob(p) ==
    /\ nextId <= MaxJobs
    /\ nextId' = nextId + 1
    /\ processQueue(SortByPriority(
           Append(queue, [id |-> nextId, priority |-> p, retries |-> 0])))
    /\ UNCHANGED <<retryTimers, contTimers, jobSuccess, jobFailed, fails, fulfils, batchSize, maxRetries>>
    /\ UNCHANGED <<chunkVars, callVars>>

\* one processJob promise of an in-flight batch settles
Settle(r, i, outcome) ==
    /\ r \in runs
    /\ i \in 1..Len(r.batch)
    /\ r.results[i] = "pending"
    /\ runs' = (runs \ {r}) \cup {[r EXCEPT !.results[i] = outcome]}
    /\ fails' = IF outcome = "rejected"
                THEN [fails EXCEPT ![r.batch[i].id] = @ + 1]
                ELSE fails
    /\ fulfils' = IF outcome = "fulfilled"
                  THEN [fulfils EXCEPT ![r.batch[i].id] = @ + 1]
                  ELSE fulfils
    /\ UNCHANGED <<queue, isProcessing, retryTimers, contTimers, nextId,
                   jobSuccess, jobFailed, batchSize, maxRetries>>
    /\ UNCHANGED <<chunkVars, callVars>>

ShouldRetryOffByOne(retries) == retries <= maxRetries
\* handleJobFailure, line 161
ShouldRetry(retries) == retries < maxRetries

BackoffDelayLinear(retries) == RetryDelay * retries
\* handleJobFailure, line 163
BackoffDelay(retries) == RetryDelay * Pow2(retries - 1)

handleJobFailure(job) ==
    LET failedJob == [job EXCEPT !.retries = job.retries + 1] IN
    IF ShouldRetry(failedJob.retries)
    THEN /\ retryTimers' = retryTimers \cup
                {[job |-> failedJob, remaining |-> BackoffDelay(failedJob.retries)]}
         /\ UNCHANGED <<jobSuccess, jobFailed>>
    ELSE /\ jobFailed' = [jobFailed EXCEPT ![job.id] = @ + 1]
         /\ UNCHANGED <<retryTimers, jobSuccess>>

handleJobSuccess(job) ==
    /\ jobSuccess' = [jobSuccess EXCEPT ![job.id] = @ + 1]
    /\ UNCHANGED <<retryTimers, jobFailed>>

ResultOfAllOrNothing(r, i) ==
    IF \E j \in 1..Len(r.batch) : r.results[j] = "rejected"
    THEN "rejected" ELSE r.results[i]
\* processQueue, lines 90-91: result = results[i]
ResultOf(r, i) == r.results[i]

\* one iteration of the result loop of processQueue (lines 89-98)
HandleResult(r) ==
    /\ r \in runs
    /\ AllSettled(r)
    /\ r.handled < Len(r.batch)
    /\ runs' = (runs \ {r}) \cup {[r EXCEPT !.handled = @ + 1]}
    /\ IF ResultOf(r, r.handled + 1) = "rejected"
       THEN handleJobFailure(r.batch[r.handled + 1])
       ELSE handleJobSuccess(r.batch[r.handled + 1])
    /\ UNCHANGED <<queue, isProcessing, contTimers, nextId, fails, fulfils, batchSize, maxRetries>>
    /\ UNCHANGED <<chunkVars, callVars>>

NeedsContinuationFullBatch(q) == Len(q) >= batchSize
NeedsContinuationNever(q) == FALSE
\* processQueue, line 105
NeedsContinuation(q) == Len(q) > 0

\* the finally block of processQueue (lines 101-108)
Finish(r) ==
    /\ r \in runs
    /\ AllSettled(r)
    /\ r.handled = Len(r.batch)
    /\ isProcessing' = FALSE
    /\ runs' = runs \ {r}
    /\ contTimers' = IF NeedsContinuation(queue)
                     THEN [contTimers EXCEPT ![ContinueDelay] = @ + 1]
                     ELSE contTimers
    /\ UNCHANGED <<queue, retryTimers, nextId, jobSuccess, jobFailed, fails, fulfils, batchSize, maxRetries>>
    /\ UNCHANGED <<chunkVars, callVars>>

\* the retry callback of handleJobFailure (lines 164-167)
RetryTimerFire(t) ==
    /\ t \in retryTimers
    /\ t.remaining = 0
    /\ ~Handling
    /\ retryTimers' = retryTimers \ {t}
    /\ processQueue(Append(queue, t.job))
    /\ UNCHANGED <<contTimers, nextId, jobSuccess, jobFailed, fails, fulfils, batchSize, maxRetries>>
    /\ UNCHANGED <<chunkVars, callVars>>

\* the continuation callback of processQueue (line 106)
ContTimerFire ==
    /\ contTimers[0] > 0
    /\ ~Handling
    /\ contTimers' = [contTimers EXCEPT ![0] = @ - 1]
    /\ processQueue(queue)
    /\ UNCHANGED <<retryTimers, nextId, jobSuccess, jobFailed, fails, fulfils, batchSize, maxRetries>>
    /\ UNCHANGED <<chunkVars, callVars>>

TimerPending == retryTimers # {} \/ \E d \in 0..ContinueDelay : contTimers[d] > 0
TimerDue == contTimers[0] > 0 \/ \E t \in retryTimers : t.remaining = 0

\* one unit of time (1000 ms) passes; a due timer runs before time moves on
Tick ==
    /\ TimerPending
    /\ ~TimerDue
    /\ ~Handling
    /\ retryTimers' = {[t EXCEPT !.remaining = @ - 1] : t \in retryTimers}
    /\ contTimers' = [d \in 0..ContinueDelay |->
                         IF d < ContinueDelay THEN contTimers[d + 1] ELSE 0]
    /\ UNCHANGED <<queue, isProcessing, runs, nextId, jobSuccess, jobFailed,
                   fails, fulfils, batchSize, maxRetries>>
    /\ UNCHANGED <<chunkVars, callVars>>

ClearQueueAbortsBatch ==
    /\ queue' = <<>>
    /\ runs' = {}
    /\ isProcessing' = FALSE
    /\ UNCHANGED <<retryTimers, contTimers, nextId,
                   jobSuccess, jobFailed, fails, fulfils, batchSize, maxRetries>>
    /\ UNCHANGED <<chunkVars, callVars>>
\* clearQueue (lines 193-195)
ClearQueue ==
    /\ queue' = <<>>
    /\ UNCHANGED <<isProcessing, runs, retryTimers, contTimers, nextId,
                   jobSuccess, jobFailed, fails, fulfils, batchSize, maxRetries>>
    /\ UNCHANGED <<chunkVars, callVars>>

WorkerFields ==
    /\ queue = <<>>
    /\ isProcessing = FALSE
    /\ runs = {}
    /\ retryTimers = {}
    /\ contTimers = [d \in 0..ContinueDelay |-> 0]
    /\ nextId = 1
    /\ jobSuccess = [id \in JobIds |-> 0]
    /\ jobFailed = [id \in JobIds |-> 0]
    /\ fails = [id \in JobIds |-> 0]
    /\ fulfils = [id \in JobIds |-> 0]

\* the constructor: any batchSize the bound allows, maxRetries at its bound
WorkerInit == WorkerFields /\ batchSize \in 1..MaxBatchSize /\ maxRetries = MaxRetries

\* a worker that is constructed and never used
WorkerIdle == WorkerFields /\ batchSize = 1 /\ maxRetries = MaxRetries

\* no retrieval or crypto function has been called
CallIdle ==
    /\ args = [fn |-> "none"]
    /\ ret = [done |-> FALSE]

ChunkIdle ==
    /\ text = <<>>
    /\ targetTokens = 1
    /\ overlapTokens = 0
    /\ op = "none"
    /\ chunks = <<>>

Init == WorkerInit /\ ChunkIdle /\ CallIdle

NextNoClear ==
    \/ \E p \in Priorities : AddJob(p)
    \/ \E r \in runs : \E i \in 1..MaxBatchSize, outcome \in {"fulfilled", "rejected"} :
           Settle(r, i, outcome)
    \/ \E r \in runs : HandleResult(r)
    \/ \E r \in runs : Finish(r)
    \/ \E t \in retryTimers : RetryTimerFire(t)
    \/ ContTimerFire
    \/ Tick

Next ==
    \/ NextNoClear
    \/ ClearQueue

Spec == Init /\ [][Next]_vars

Progress ==
    /\ WF_vars(\E r \in runs : \E i \in 1..MaxBatchSize, outcome \in {"fulfilled", "rejected"} :
                  Settle(r, i, outcome))
    /\ WF_vars(\E r \in runs : HandleResult(r))
    /\ WF_vars(\E r \in runs : Finish(r))
    /\ WF_vars(\E t \in retryTimers : RetryTimerFire(t))
    /\ WF_vars(ContTimerFire)
    /\ WF_vars(Tick)

\* every embedding call settles, every timer fires, clearQueue is never called
FairSpec == Init /\ [][NextNoClear]_vars /\ Progress

\* the same scheduling, with clearQueue calls allowed
FairSpecClear == Init /\ [][Next]_vars /\ Progress

----------------------------------------------------------------------------
(* Strings: a text is a sequence of one-character strings, offsets are   *)
(* 0-based as in JavaScript                                              *)

MaxLen == 5
MaxTarget == 3
MaxOverlap == 2
Alphabet == {"a", "b", " ", "."}
Texts == UNION {[1..n -> Alphabet] : n \in 0..MaxLen}

\* \s of the regular expressions
Spaces == {" ", "\n", "\t"}
IsSpace(c) == c \in Spaces
\* [.!?] of the regular expressions
Terminators == {".", "!", "?"}
IsTerminator(c) == c \in Terminators

SetMin(S) == CHOOSE x \in S : \A y \in S : x <= y
SetMax(S) == CHOOSE x \in S : \A y \in S : x >= y

\* String.prototype.slice(a, b)
Slice(s, a, b) ==
    LET n == Len(s)
        from == IF a < 0 THEN Max(n + a, 0) ELSE Min(a, n)
        to == IF b < 0 THEN Max(n + b, 0) ELSE Min(b, n)
    IN IF from >= to THEN <<>> ELSE SubSeq(s, from + 1, to)

\* String.prototype.trim()
Trim(s) ==
    LET keep == {i \in 1..Len(s) : ~IsSpace(s[i])}
    IN IF keep = {} THEN <<>> ELSE SubSeq(s, SetMin(keep), SetMax(keep))

\* String.prototype.indexOf(word, from): 0-based position, or -1
IndexOf(s, word, from) ==
    LET f == Min(Max(from, 0), Len(s))
        hits == {i \in f..(Len(s) - Len(word)) : SubSeq(s, i + 1, i + Len(word)) = word}
    IN IF hits = {} THEN -1 ELSE SetMin(hits)

\* last position (1-based) of the run of class characters starting at position i;
\* i - 1 when s[i] is not in the class
RunEnd(s, i, class) ==
    LET stop == {j \in i..Len(s) : s[j] \notin class}
    IN IF stop = {} THEN Len(s) ELSE SetMin(stop) - 1

\* String.prototype.split(/[class]+/): cut at every maximal run of class characters
RECURSIVE SplitRuns(_, _)
SplitRuns(s, class) ==
    LET seps == {i \in 1..Len(s) : s[i] \in class}
    IN IF seps = {} THEN <<s>>
       ELSE LET i == SetMin(seps)
                e == RunEnd(s, i, class)
            IN <<SubSeq(s, 1, i - 1)>> \o SplitRuns(SubSeq(s, e + 1, Len(s)), class)

\* String.prototype.split(' '): cut at every single blank
RECURSIVE SplitBlank(_)
SplitBlank(s) ==
    LET seps == {i \in 1..Len(s) : s[i] = " "}
    IN IF seps = {} THEN <<s>>
       ELSE LET i == SetMin(seps)
            IN <<SubSeq(s, 1, i - 1)>> \o SplitBlank(SubSeq(s, i + 1, Len(s)))

\* Array.prototype.join(' ')
RECURSIVE JoinBlank(_)
JoinBlank(words) ==
    IF words = <<>> THEN <<>>
    ELSE IF Len(words) = 1 THEN words[1]
    ELSE words[1] \o <<" ">> \o JoinBlank(Tail(words))

\* Array.prototype.slice(start) with start <= 0; slice(-0) is slice(0)
ArraySliceFrom(arr, start) ==
    LET from == IF start < 0 THEN Max(Len(arr) + start, 0) ELSE Min(start, Len(arr))
    IN SubSeq(arr, from + 1, Len(arr))

----------------------------------------------------------------------------
(* chunker (core/chunk/chunker): the JavaScript and the TypeScript file   *)

\* Math.ceil(text.length / 3)
estimateTokens(t) == (Len(t) + 2) \div 3

\* tokens >= Math.min(20, targetTokens / 8), without the division
MeetsMinChunkTokens(tokens, target) == tokens >= 20 \/ 8 * tokens >= target

\* the exec loop of splitIntoSentences over /[.!?]+\s*/g, from lastIndex on
RECURSIVE SentencesFrom(_, _)
SentencesFrom(txt, lastIndex) ==
    LET terms == {i \in (lastIndex + 1)..Len(txt) : IsTerminator(txt[i])}
    IN IF terms = {}
       THEN IF lastIndex < Len(txt) /\ Len(Trim(Slice(txt, lastIndex, Len(txt)))) > 0
            THEN <<[text |-> Trim(Slice(txt, lastIndex, Len(txt))),
                    start |-> lastIndex, end |-> Len(txt)]>>
            ELSE <<>>
       ELSE LET matchEnd == RunEnd(txt, RunEnd(txt, SetMin(terms), Terminators) + 1, Spaces)
                sentenceText == Trim(Slice(txt, lastIndex, matchEnd))
            IN (IF Len(sentenceText) > 0
                THEN <<[text |-> sentenceText, start |-> lastIndex, end |-> matchEnd]>>
                ELSE <<>>) \o SentencesFrom(txt, matchEnd)

splitIntoSentences(txt) ==
    LET found == SentencesFrom(txt, 0)
    IN IF Len(found) = 0 /\ Len(Trim(txt)) > 0
       THEN <<[text |-> Trim(txt), start |-> 0, end |-> Len(txt)]>>
       ELSE found

\* Math.ceil(overlapTokens * 0.8)
OverlapWords(overlap) == (4 * overlap + 4) \div 5

createOverlap(chunkTxt, overlap) ==
    LET words == SplitRuns(chunkTxt, Spaces)
        overlapWords == Min(Len(words), OverlapWords(overlap))
    IN JoinBlank(ArraySliceFrom(words, 0 - overlapWords))

\* const chunkText = input.slice(a, b).trim();
\* if (chunkText.length > 0) chunks.push({start: a, end: b, text: chunkText})
PushSlice(cs, input, a, b) ==
    LET t == Trim(Slice(input, a, b))
    IN IF Len(t) > 0 THEN Append(cs, [start |-> a, end |-> b, text |-> t]) ELSE cs

\* the loop over the words of a long sentence (JavaScript file, lines 272-294
\* and 356-378): hay is the string searched, base the offset added to its indices
RECURSIVE WordLoop(_, _, _, _, _, _, _)
WordLoop(input, hay, base, words, k, target, st) ==
    IF k > Len(words) THEN st
    ELSE LET word == words[k]
             wordIndex == IndexOf(hay, word, st.wordEnd - base)
             newWordEnd == base + wordIndex + Len(word)
             wordChunkTokens == estimateTokens(Slice(input, st.wordStart, newWordEnd))
         IN IF wordChunkTokens > target /\ st.wordEnd > st.wordStart
            THEN WordLoop(input, hay, base, words, k + 1, target,
                          [chunks |-> PushSlice(st.chunks, input, st.wordStart, st.wordEnd),
                           wordStart |-> base + wordIndex,
                           wordEnd |-> newWordEnd])
            ELSE WordLoop(input, hay, base, words, k + 1, target,
                          [st EXCEPT !.wordEnd = newWordEnd])

\* word-level splitting with its final chunk (lines 269-305 and 353-389)
SplitByWords(cs, input, hay, base, words, wordStart0, target) ==
    LET st == WordLoop(input, hay, base, words, 1, target,
                       [chunks |-> cs, wordStart |-> wordStart0, wordEnd |-> wordStart0])
    IN IF st.wordEnd > st.wordStart
       THEN PushSlice(st.chunks, input, st.wordStart, st.wordEnd)
       ELSE st.chunks

\* chunkText (JavaScript), lines 307-308: currentStart = 0; currentEnd = 0
ResetStart(s) == 0

\* one iteration of the sentence loop of chunkText (JavaScript, lines 252-337)
SentenceStep(input, sentence, target, overlap, s) ==
    IF estimateTokens(sentence.text) > target
    THEN LET flushed == IF s.currentEnd > s.currentStart
                        THEN PushSlice(s.chunks, input, s.currentStart, s.currentEnd)
                        ELSE s.chunks
         IN [chunks |-> SplitByWords(flushed, input, sentence.text, sentence.start,
                                     SplitRuns(sentence.text, Spaces),
                                     sentence.start, target),
             currentStart |-> ResetStart(s),
             currentEnd |-> ResetStart(s),
             currentTokens |-> 0]
    ELSE LET potentialEnd == sentence.end
             potentialTokens == estimateTokens(Slice(input, s.currentStart, potentialEnd))
         IN IF potentialTokens > target /\ MeetsMinChunkTokens(s.currentTokens, target)
            THEN LET chunkTxt == Trim(Slice(input, s.currentStart, s.currentEnd))
                     overlapTxt == createOverlap(chunkTxt, overlap)
                     newStart == Max(0, s.currentEnd - Len(overlapTxt))
                 IN [chunks |-> PushSlice(s.chunks, input, s.currentStart, s.currentEnd),
                     currentStart |-> newStart,
                     currentEnd |-> potentialEnd,
                     currentTokens |-> estimateTokens(Slice(input, newStart, potentialEnd))]
            ELSE [s EXCEPT !.currentEnd = potentialEnd,
                           !.currentTokens = potentialTokens]

RECURSIVE SentenceLoop(_, _, _, _, _, _)
SentenceLoop(input, sentences, i, target, overlap, s) ==
    IF i > Len(sentences) THEN s
    ELSE SentenceLoop(input, sentences, i + 1, target, overlap,
                      SentenceStep(input, sentences[i], target, overlap, s))

\* chunkText of the JavaScript file (part_008, lines 235-392)
chunkText(input, target, overlap) ==
    IF Len(Trim(input)) = 0 THEN <<>>
    ELSE LET sentences == splitIntoSentences(input)
         IN IF Len(sentences) = 0 THEN <<>>
            ELSE LET s == SentenceLoop(input, sentences, 1, target, overlap,
                                       [chunks |-> <<>>, currentStart |-> 0,
                                        currentEnd |-> 0, currentTokens |-> 0])
                     final == IF \/ MeetsMinChunkTokens(s.currentTokens, target)
                                 \/ (Len(s.chunks) = 0 /\ s.currentEnd > s.currentStart)
                              THEN PushSlice(s.chunks, input, s.currentStart, s.currentEnd)
                              ELSE s.chunks
                 IN IF Len(final) = 0 /\ Len(Trim(input)) > 0
                    THEN SplitByWords(final, input, input, 0,
                                      SplitRuns(Trim(input), Spaces), 0, target)
                    ELSE final

\* one iteration of the sentence loop of chunkText (TypeScript, lines 110-134)
SentenceStepTs(sentence, target, overlap, s) ==
    LET potentialChunk == s.currentChunk
                          \o (IF Len(s.currentChunk) > 0 THEN <<" ">> ELSE <<>>)
                          \o sentence.text
        potentialTokens == estimateTokens(potentialChunk)
    IN IF potentialTokens > target /\ MeetsMinChunkTokens(s.currentTokens, target)
       THEN LET overlapTxt == createOverlap(s.currentChunk, overlap)
                newChunk == overlapTxt
                            \o (IF Len(overlapTxt) > 0 THEN <<" ">> ELSE <<>>)
                            \o sentence.text
            IN [chunks |-> Append(s.chunks,
                                  [start |-> s.currentStart,
                                   end |-> s.currentStart + Len(s.currentChunk),
                                   text |-> Trim(s.currentChunk)]),
                currentChunk |-> newChunk,
                currentStart |-> sentence.start - Len(overlapTxt),
                currentTokens |-> estimateTokens(newChunk)]
       ELSE [s EXCEPT !.currentChunk = potentialChunk,
                      !.currentTokens = potentialTokens]

RECURSIVE SentenceLoopTs(_, _, _, _, _)
SentenceLoopTs(sentences, i, target, overlap, s) ==
    IF i > Len(sentences) THEN s
    ELSE SentenceLoopTs(sentences, i + 1, target, overlap,
                        SentenceStepTs(sentences[i], target, overlap, s))

\* chunkText of the TypeScript file (part_008, lines 85-146)
chunkTextTs(input, target, overlap) ==
    IF Len(Trim(input)) = 0 THEN <<>>
    ELSE LET sentences == splitIntoSentences(input)
         IN IF Len(sentences) = 0 THEN <<>>
            ELSE LET s == SentenceLoopTs(sentences, 1, target, overlap,
                                         [chunks |-> <<>>, currentChunk |-> <<>>,
                                          currentStart |-> 0, currentTokens |-> 0])
                 IN IF \/ MeetsMinChunkTokens(s.currentTokens, target)
                       \/ (Len(s.chunks) = 0 /\ Len(Trim(s.currentChunk)) > 0)
                    THEN Append(s.chunks,
                                [start |-> s.currentStart,
                                 end |-> s.currentStart + Len(s.currentChunk),
                                 text |-> Trim(s.currentChunk)])
                    ELSE s.chunks

\* validateChunks (both files): slice compared without trim
validateChunks(cs, originalText) ==
    \A i \in 1..Len(cs) : Slice(originalText, cs[i].start, cs[i].end) = cs[i].text

CallChunkText ==
    /\ op = "none"
    /\ op' = "chunkText"
    /\ chunks' = chunkText(text, targetTokens, overlapTokens)
    /\ UNCHANGED <<text, targetTokens, overlapTokens>>
    /\ UNCHANGED <<workerVars, callVars>>

CallChunkTextTs ==
    /\ op = "none"
    /\ op' = "chunkTextTs"
    /\ chunks' = chunkTextTs(text, targetTokens, overlapTokens)
    /\ UNCHANGED <<text, targetTokens, overlapTokens>>
    /\ UNCHANGED <<workerVars, callVars>>

ChunkInit ==
    /\ WorkerIdle
    /\ CallIdle
    /\ text \in Texts
    /\ targetTokens \in 1..MaxTarget
    /\ overlapTokens \in 0..MaxOverlap
    /\ op = "none"
    /\ chunks = <<>>

ChunkNext == CallChunkText \/ CallChunkTextTs

\* chunkText applied to every bounded text and token setting
ChunkSpec == ChunkInit /\ [][ChunkNext]_vars

----------------------------------------------------------------------------
(* Properties of the job queue *)

QueueIds == {queue[i].id : i \in 1..Len(queue)}
TimerIds == {t.job.id : t \in retryTimers}
Unhandled(r) == {r.batch[i].id : i \in (r.handled + 1)..Len(r.batch)}
InFlightIds == UNION {Unhandled(r) : r \in runs}
Pending(r) == {i \in 1..Len(r.batch) : r.results[i] = "pending"}
Added(id) == id < nextId
Terminal(id) == jobSuccess[id] + jobFailed[id] > 0
AllTerminal == \A id \in JobIds : Added(id) => Terminal(id)

\* C1: a job that fulfils after fewer than maxRetries rejections is notified
\* with jobSuccess; a job that rejected maxRetries times is notified with
\* jobFailed and is from then on neither queued, nor waiting for a retry, nor
\* dispatched.
C1_RetryOutcome ==
    \A id \in JobIds :
        /\ fails[id] <= MaxRetries
        /\ (fulfils[id] > 0 /\ id \notin InFlightIds)
               => (fails[id] < MaxRetries /\ jobSuccess[id] = 1 /\ jobFailed[id] = 0)
        /\ (fails[id] = MaxRetries /\ id \notin InFlightIds)
               => (jobFailed[id] = 1 /\ jobSuccess[id] = 0)
        /\ Terminal(id) => id \notin (QueueIds \cup TimerIds \cup InFlightIds)

C1_Witness ==
    \E a, b \in JobIds :
        /\ jobSuccess[a] = 1 /\ fails[a] = MaxRetries - 1
        /\ jobFailed[b] = 1 /\ fails[b] = MaxRetries

\* C2: at most one batch is in flight, and at most batchSize processJob calls
\* are pending at any time.
C2_SingleBatch ==
    /\ Cardinality(runs) <= 1
    /\ \A r \in runs : isProcessing /\ Len(r.batch) <= batchSize
    /\ Cardinality({<<r, i>> \in runs \X (1..MaxJobs) : i \in Pending(r)}) <= batchSize

C2_Witness ==
    \E r \in runs :
        /\ batchSize > 1
        /\ Cardinality(Pending(r)) = batchSize
        /\ contTimers[0] > 0

\* C3: with settling embedding calls, firing timers and no clearQueue, every
\* added job becomes terminal; a terminal job set leaves nothing queued or
\* waiting, and the worker then returns to idle.
C3_AllJobsTerminate ==
    /\ \A id \in JobIds : Added(id) ~> Terminal(id)
    /\ [](AllTerminal => (queue = <<>> /\ retryTimers = {}))
    /\ (AllTerminal ~> (AllTerminal /\ queue = <<>> /\ ~isProcessing /\ runs = {}))

C3_Witness ==
    /\ nextId > 2
    /\ AllTerminal
    /\ queue = <<>>
    /\ ~isProcessing
    /\ \E id \in JobIds : jobFailed[id] = 1
    /\ \E id \in JobIds : jobSuccess[id] = 1 /\ fails[id] > 0

\* a processQueue invocation takes its batch in this step
Drawn(r) == /\ r \notin runs
            /\ r.handled = 0
            /\ Pending(r) = 1..Len(r.batch)

\* C4: every job of a batch drawn by processQueue has a priority at least as
\* high as every job left in the queue.
C4_BatchHasTopPriority ==
    [][\A r \in runs' :
           Drawn(r) => \A i \in 1..Len(r.batch), j \in 1..Len(queue') :
                           r.batch[i].priority >= queue'[j].priority]_vars

\* C5: the loop handles the result at each batch position on its own: a
\* fulfilled job is notified with jobSuccess whatever its siblings did, a
\* rejected one gets a retry timer or a jobFailed notification.
C5_PerJobOutcome ==
    [][\A r \in runs :
           LET k == r.handled + 1 IN
           (k <= Len(r.batch) /\ [r EXCEPT !.handled = k] \in runs') =>
               LET id == r.batch[k].id IN
               IF r.results[k] = "fulfilled"
               THEN /\ jobSuccess' = [jobSuccess EXCEPT ![id] = @ + 1]
                    /\ jobFailed' = jobFailed
                    /\ retryTimers' = retryTimers
               ELSE /\ jobSuccess' = jobSuccess
                    /\ \/ /\ jobFailed' = [jobFailed EXCEPT ![id] = @ + 1]
                          /\ retryTimers' = retryTimers
                       \/ /\ jobFailed' = jobFailed
                          /\ \E t \in retryTimers' :
                                 /\ t.job.id = id
                                 /\ retryTimers' = retryTimers \cup {t}
                                 /\ t \notin retryTimers]_vars

C5_Witness ==
    \E r \in runs :
        /\ Len(r.batch) >= 2
        /\ r.handled = Len(r.batch)
        /\ r.results[1] = "rejected"
        /\ r.results[2] = "fulfilled"
        /\ jobSuccess[r.batch[2].id] = 1
        /\ jobFailed[r.batch[1].id] = 0

\* C6: a step that drops a waiting job (the job leaves the queue without being
\* dispatched: a clearQueue call) empties the queue and changes nothing else
\* (the in-flight batch and its results stay), and every dispatched job still
\* has its result handled.
C6_ClearKeepsBatch ==
    /\ [][(QueueIds \ (QueueIds' \cup InFlightIds')) # {} =>
              (queue' = <<>> /\ runs' = runs /\ isProcessing' = isProcessing
               /\ retryTimers' = retryTimers /\ contTimers' = contTimers
               /\ jobSuccess' = jobSuccess /\ jobFailed' = jobFailed)]_vars
    /\ \A id \in JobIds : (id \in InFlightIds) ~> (id \notin InFlightIds)

\* a job was dropped by clearQueue, and a batch holding an older job that was
\* dispatched before the call has been handled to its end
C6_Witness ==
    /\ queue = <<>>
    /\ \E r \in runs :
           /\ r.handled = Len(r.batch)
           /\ \E i \in 1..Len(r.batch), d \in JobIds :
                  /\ r.batch[i].retries = 0
                  /\ r.batch[i].id < d
                  /\ Added(d)
                  /\ ~Terminal(d)
                  /\ d \notin (QueueIds \cup TimerIds)
                  /\ \A r2 \in runs : \A k \in 1..Len(r2.batch) : r2.batch[k].id # d
                  /\ jobSuccess[r.batch[i].id] = 1

----------------------------------------------------------------------------
(* ChunkProcessor (core/chunk/processor.ts), with the default configuration *)
(* the embedding worker constructs it with                                  *)

MaxChunkSize == 500
OverlapSize == 50
MinChunkSize == 100

WordLen == 120
MaxUnits == 5
LongWord == [i \in 1..WordLen |-> "a"]
\* a long word followed by nothing, a blank, a full stop, or both
Units == {LongWord \o sep : sep \in {<<>>, <<" ">>, <<".">>, <<".", " ">>}}

RECURSIVE Concat(_)
Concat(parts) == IF parts = <<>> THEN <<>> ELSE parts[1] \o Concat(Tail(parts))

ProcTexts == {Concat(us) : us \in UNION {[1..n -> Units] : n \in 0..MaxUnits}}

RECURSIVE TrimAll(_)
TrimAll(parts) ==
    IF parts = <<>> THEN <<>>
    ELSE (IF Len(Trim(parts[1])) > 0 THEN <<Trim(parts[1])>> ELSE <<>>) \o TrimAll(Tail(parts))

\* ChunkProcessor.splitIntoSentences: split(/[.!?]+/), trim, drop empty
procSplitIntoSentences(txt) == TrimAll(SplitRuns(txt, Terminators))

\* ChunkProcessor.getOverlap
getOverlap(txt) ==
    LET words == SplitBlank(txt)
        overlapWords == OverlapSize \div 6
    IN JoinBlank(ArraySliceFrom(words, 0 - overlapWords))

\* ChunkProcessor.createChunk; id, tags and importance are left out
createChunk(txt, startOff, endOff) ==
    [text |-> txt, startOff |-> startOff, endOff |-> endOff]

RECURSIVE ProcessLoop(_, _, _)
ProcessLoop(sentences, i, s) ==
    IF i > Len(sentences) THEN s
    ELSE LET sentence == sentences[i]
             potentialChunk == s.currentChunk
                               \o (IF Len(s.currentChunk) > 0 THEN <<" ">> ELSE <<>>)
                               \o sentence
         IN IF Len(potentialChunk) > MaxChunkSize /\ Len(s.currentChunk) >= MinChunkSize
            THEN LET overlapTxt == getOverlap(s.currentChunk)
                     newChunk == overlapTxt \o sentence
                 IN ProcessLoop(sentences, i + 1,
                        [chunks |-> Append(s.chunks,
                                           createChunk(Trim(s.currentChunk), s.startOff,
                                                       s.startOff + Len(s.currentChunk))),
                         currentChunk |-> newChunk,
                         startOff |-> s.startOff + Len(newChunk) - Len(overlapTxt)])
            ELSE ProcessLoop(sentences, i + 1, [s EXCEPT !.currentChunk = potentialChunk])

\* ChunkProcessor.processText
processText(txt) ==
    LET s == ProcessLoop(procSplitIntoSentences(txt), 1,
                         [chunks |-> <<>>, currentChunk |-> <<>>, startOff |-> 0])
    IN IF Len(s.currentChunk) >= MinChunkSize
       THEN Append(s.chunks, createChunk(Trim(s.currentChunk), s.startOff,
                                         s.startOff + Len(s.currentChunk)))
       ELSE s.chunks

\* processJob, lines 114-118: the worker chunks the job content
CallProcessText ==
    /\ op = "none"
    /\ op' = "processText"
    /\ chunks' = processText(text)
    /\ UNCHANGED <<text, targetTokens, overlapTokens>>
    /\ UNCHANGED <<workerVars, callVars>>

ProcInit ==
    /\ WorkerIdle
    /\ CallIdle
    /\ text \in ProcTexts
    /\ targetTokens = 1
    /\ overlapTokens = 0
    /\ op = "none"
    /\ chunks = <<>>

ProcNext == CallProcessText

\* processText applied to every bounded entry text
ProcSpec == ProcInit /\ [][ProcNext]_vars

----------------------------------------------------------------------------
(* Properties of the chunker *)

ChunkTextCalled == op \in {"chunkText", "chunkTextTs"}

\* C7: every chunk c returned by chunkText has
\* 0 <= c.start <= c.end <= input length and input.slice(c.start, c.end).trim() = c.text.
C7_OffsetsAlign ==
    ChunkTextCalled =>
        \A i \in 1..Len(chunks) :
            /\ 0 <= chunks[i].start
            /\ chunks[i].start <= chunks[i].end
            /\ chunks[i].end <= Len(text)
            /\ Trim(Slice(text, chunks[i].start, chunks[i].end)) = chunks[i].text

\* C8: every TextChunk c produced by processText has
\* text.slice(c.startOff, c.endOff).trim() = c.text.
C8_ProcessorOffsetsAlign ==
    op = "processText" =>
        \A i \in 1..Len(chunks) :
            Trim(Slice(text, chunks[i].startOff, chunks[i].endOff)) = chunks[i].text

\* C9: validateChunks accepts the chunks chunkText returns for their input.
C9_ValidateAccepts ==
    op = "chunkText" => validateChunks(chunks, text)

\* C10: the start offsets of the chunks returned by chunkText never decrease.
C10_StartsMonotonic ==
    op = "chunkText" =>
        \A i \in 2..Len(chunks) : chunks[i].start >= chunks[i - 1].start

----------------------------------------------------------------------------
(* MMR re-ranking: mmr (src/core/mmr/mmr.ts) and MMRSelector.select       *)
(* (src/core/mmr/selector.js).  Vectors have integer coordinates and an   *)
(* integer length, so that every cosine is a multiple of 1/Scale and is   *)
(* held as that multiple; all vectors of one call have the same dimension *)

MaxItems == 3
MaxK == 3
\* cosines are counted in units of 1/25
Scale == 25
\* lambda is counted in units of 1/2
LambdaDen == 2
Lambdas == 0..LambdaDen

Vecs == {<<1, 0>>, <<3, 4>>, <<4, 3>>, <<-1, 0>>, <<0, 0>>}
Queries == {<<1, 0>>, <<3, 4>>, <<0, 0>>}
BaseScores == {1, 2}
\* ids of the items of mmr, by position in the input
ItemIds == <<"a", "b", "c", "d", "e">>
\* ids of the candidates of select; '' is a falsy id
CandidateIds == {"", "a", "b"}
\* embeddings.get(id) of an id without embedding
NoVec == <<>>

\* Math.sqrt of a perfect square
Sqrt(n) == CHOOSE r \in 0..n : r * r = n

Dot(a, b) == a[1] * b[1] + a[2] * b[2]

\* cosineSimilarity (mmr.ts lines 20-37, selector.js lines 77-91)
cosineSimilarity(a, b) ==
    LET magnitude == Sqrt(Dot(a, a)) * Sqrt(Dot(b, b))
    IN IF magnitude = 0 THEN 0 ELSE (Scale * Dot(a, b)) \div magnitude

calculateRelevance(queryVec, itemVec) == cosineSimilarity(queryVec, itemVec)

\* the value of -Infinity: below every MMR score
NegInfinity == -(LambdaDen * Scale) - 1

MmrScoreRelevanceOnly(lambda, relevance, diversity) ==
    lambda * relevance
\* lambda * relevance - (1 - lambda) * diversity, in units of 1/(LambdaDen * Scale)
MmrScore(lambda, relevance, diversity) ==
    lambda * relevance - (LambdaDen - lambda) * diversity

\* items.find(i => i.id === id): the first item with that id
Find(items, id) == items[SetMin({i \in 1..Len(items) : items[i].id = id})]

\* new Set(items.map(item => item.id)): the ids in order of first occurrence
RECURSIVE IdSet(_)
IdSet(items) ==
    IF items = <<>> THEN <<>>
    ELSE LET rest == IdSet(SubSeq(items, 1, Len(items) - 1))
             id == items[Len(items)].id
         IN IF \E i \in 1..Len(rest) : rest[i] = id THEN rest ELSE Append(rest, id)

\* Set.prototype.delete
RECURSIVE SetDelete(_, _)
SetDelete(ids, id) ==
    IF ids = <<>> THEN <<>>
    ELSE IF ids[1] = id THEN Tail(ids)
    ELSE <<ids[1]>> \o SetDelete(Tail(ids), id)

\* the scan `for (const id of remaining) if (mmrScore > bestScore) ...`:
\* the first id, in iteration order, whose score is the greatest
BestId(remaining, score) ==
    LET best == SetMax({score[remaining[i]] : i \in 1..Len(remaining)})
    IN remaining[SetMin({i \in 1..Len(remaining) : score[remaining[i]] = best})]

\* calculateDiversity of mmr.ts (lines 49-66)
calculateDiversity(candidateId, selectedItems, allItems) ==
    IF selectedItems = <<>> THEN 0
    ELSE LET candidate == Find(allItems, candidateId)
         IN SetMax({0} \cup {cosineSimilarity(candidate.vec, selectedItems[i].vec) :
                                 i \in 1..Len(selectedItems)})

\* items.sort((a, b) => b.baseScore - a.baseScore): stable, descending
RECURSIVE InsertByBaseScore(_, _)
InsertByBaseScore(sorted, item) ==
    IF sorted = <<>> THEN <<item>>
    ELSE IF sorted[Len(sorted)].baseScore >= item.baseScore
         THEN Append(sorted, item)
         ELSE Append(InsertByBaseScore(SubSeq(sorted, 1, Len(sorted) - 1), item),
                     sorted[Len(sorted)])

RECURSIVE SortByBaseScore(_)
SortByBaseScore(items) ==
    IF items = <<>> THEN <<>>
    ELSE InsertByBaseScore(SortByBaseScore(SubSeq(items, 1, Len(items) - 1)),
                           items[Len(items)])

\* the selection loop of mmr (lines 97-127)
RECURSIVE MmrLoop(_, _, _, _, _, _)
MmrLoop(items, queryVec, lambda, k, selected, remaining) ==
    IF Len(selected) < k /\ Len(remaining) > 0
    THEN LET score == [id \in {remaining[i] : i \in 1..Len(remaining)} |->
                          MmrScore(lambda,
                                   calculateRelevance(queryVec, Find(items, id).vec),
                                   calculateDiversity(id, selected, items))]
             bestId == BestId(remaining, score)
         IN IF bestId # "" /\ score[bestId] > NegInfinity
            THEN MmrLoop(items, queryVec, lambda, k,
                         Append(selected, Find(items, bestId)),
                         SetDelete(remaining, bestId))
            ELSE selected
    ELSE selected

\* mmr (lines 77-130): the ordered item ids
mmr(items, queryVec, lambda, k) ==
    IF Len(items) = 0 THEN <<>>
    ELSE IF k <= 0 THEN <<>>
    ELSE IF k >= Len(items)
         THEN [i \in 1..Len(items) |-> SortByBaseScore(items)[i].id]
         ELSE LET selected == MmrLoop(items, queryVec, lambda, k, <<>>, IdSet(items))
              IN [i \in 1..Len(selected) |-> selected[i].id]

\* MMRSelector.calculateDiversity (selector.js lines 61-76)
selCalculateDiversity(candidateId, selected, embeddings) ==
    IF selected = <<>> THEN 0
    ELSE IF embeddings[candidateId] = NoVec THEN 0
    ELSE SetMax({0} \cup {cosineSimilarity(embeddings[candidateId], embeddings[selected[i].id]) :
                              i \in {j \in 1..Len(selected) : embeddings[selected[j].id] # NoVec}})

\* the relevance map of select (lines 25-31), read as `scores.get(id) || 0`
selScores(queryEmbedding, embeddings) ==
    [id \in DOMAIN embeddings |->
        IF embeddings[id] = NoVec THEN 0
        ELSE calculateRelevance(queryEmbedding, embeddings[id])]

SelectMoreOffByOne(selected, remaining, maxResults) ==
    Len(selected) <= maxResults /\ Len(remaining) > 0
\* select, line 33: while (selected.length < maxResults && remaining.size > 0)
SelectMore(selected, remaining, maxResults) ==
    Len(selected) < maxResults /\ Len(remaining) > 0

\* the selection loop of select (lines 33-55)
RECURSIVE SelectLoop(_, _, _, _, _, _, _)
SelectLoop(candidates, embeddings, scores, lambda, maxResults, selected, remaining) ==
    IF SelectMore(selected, remaining, maxResults)
    THEN LET score == [id \in {remaining[i] : i \in 1..Len(remaining)} |->
                          MmrScore(lambda, scores[id],
                                   selCalculateDiversity(id, selected, embeddings))]
             bestId == BestId(remaining, score)
         IN IF bestId # "" /\ score[bestId] > NegInfinity
            THEN SelectLoop(candidates, embeddings, scores, lambda, maxResults,
                            Append(selected, Find(candidates, bestId)),
                            SetDelete(remaining, bestId))
            ELSE selected
    ELSE selected

\* MMRSelector.select (lines 17-57): the selected candidates
select(queryEmbedding, candidates, embeddings, lambda, maxResults) ==
    IF Len(candidates) = 0 THEN <<>>
    ELSE SelectLoop(candidates, embeddings, selScores(queryEmbedding, embeddings),
                    lambda, maxResults, <<>>, IdSet(candidates))

\* the item lists given to mmr: distinct ids, any vectors and base scores
MmrItems ==
    UNION {{[i \in 1..n |-> [id |-> ItemIds[i], vec |-> vs[i], baseScore |-> bs[i]]] :
               vs \in [1..n -> Vecs], bs \in [1..n -> BaseScores]} : n \in 0..MaxItems}

\* the candidate lists given to select: ids may repeat; text tells the
\* candidates apart
SelectCandidates ==
    UNION {{[i \in 1..n |-> [id |-> ids[i], score |-> 0, text |-> i]] :
               ids \in [1..n -> CandidateIds]} : n \in 0..MaxItems}

\* the caller's items array after mmr returned: items.sort (line 89) sorts the
\* array it is given in place; the selection loop only reads it
mmrItemsAfter(items, queryVec, lambda, k) ==
    IF Len(items) = 0 THEN items
    ELSE IF k <= 0 THEN items
    ELSE IF k >= Len(items) THEN SortByBaseScore(items)
    ELSE items

CallMmr ==
    /\ args.fn = "mmr"
    /\ ~ret.done
    /\ ret' = [done |-> TRUE, value |-> mmr(args.items, args.queryVec, args.lambda, args.k),
               items |-> mmrItemsAfter(args.items, args.queryVec, args.lambda, args.k)]
    /\ UNCHANGED <<args, workerVars, chunkVars>>

MmrInit ==
    /\ WorkerIdle
    /\ ChunkIdle
    /\ \E items \in MmrItems, q \in Queries, lambda \in Lambdas, k \in 0..MaxK :
           args = [fn |-> "mmr", items |-> items, queryVec |-> q, lambda |-> lambda, k |-> k]
    /\ ret = [done |-> FALSE]

\* mmr applied to every bounded item list
MmrSpec == MmrInit /\ [][CallMmr]_vars

CallSelect ==
    /\ args.fn = "select"
    /\ ~ret.done
    /\ ret' = [done |-> TRUE,
               value |-> select(args.queryEmbedding, args.candidates, args.embeddings,
                                args.lambda, args.maxResults)]
    /\ UNCHANGED <<args, workerVars, chunkVars>>

SelectInit ==
    /\ WorkerIdle
    /\ ChunkIdle
    /\ \E cs \in SelectCandidates, em \in [CandidateIds -> Vecs \cup {NoVec}],
          q \in Queries, lambda \in Lambdas, m \in 1..MaxK :
           args = [fn |-> "select", queryEmbedding |-> q, candidates |-> cs,
                   embeddings |-> em, lambda |-> lambda, maxResults |-> m]
    /\ ret = [done |-> FALSE]

\* MMRSelector.select applied to every bounded candidate list
SelectSpec == SelectInit /\ [][CallSelect]_vars

----------------------------------------------------------------------------
(* Properties of MMR selection *)

\* the relevance mmr computes for the item with this id
MmrRelevance(id) == calculateRelevance(args.queryVec, Find(args.items, id).vec)

\* C11: with lambda = 1 the ids returned by mmr, and the ids of the items
\* returned by select that have an embedding, are in order of non-increasing
\* cosine relevance to the query vector.
C11_LambdaOneByRelevance ==
    /\ (args.fn = "mmr" /\ ret.done /\ args.lambda = LambdaDen) =>
           \A i, j \in 1..Len(ret.value) :
               i < j => MmrRelevance(ret.value[i]) >= MmrRelevance(ret.value[j])
    /\ (args.fn = "select" /\ ret.done /\ args.lambda = LambdaDen) =>
           \A i, j \in 1..Len(ret.value) :
               (/\ i < j
                /\ args.embeddings[ret.value[i].id] # NoVec
                /\ args.embeddings[ret.value[j].id] # NoVec) =>
                   calculateRelevance(args.queryEmbedding, args.embeddings[ret.value[i].id])
                       >= calculateRelevance(args.queryEmbedding, args.embeddings[ret.value[j].id])

\* C12: select returns at most min(maxResults, number of candidates) items,
\* no id twice, and every returned item is one of the input candidates.
C12_SelectBounded ==
    (args.fn = "select" /\ ret.done) =>
        /\ Len(ret.value) <= Min(args.maxResults, Len(args.candidates))
        /\ \A i, j \in 1..Len(ret.value) : i # j => ret.value[i].id # ret.value[j].id
        /\ \A i \in 1..Len(ret.value) :
               \E c \in 1..Len(args.candidates) : ret.value[i] = args.candidates[c]

\* more candidates than maxResults, one id given twice, maxResults items returned
C12_Witness ==
    /\ args.fn = "select"
    /\ ret.done
    /\ args.maxResults >= 2
    /\ Len(args.candidates) > args.maxResults
    /\ \E i, j \in 1..Len(args.candidates) :
           i # j /\ args.candidates[i].id = args.candidates[j].id
    /\ Len(ret.value) = args.maxResults

\* items p and q are near-duplicates and item r is distinct from both: p and q
\* are closer to each other than either is to r
NearDuplicates(items, p, q, r) ==
    LET pq == cosineSimilarity(items[p].vec, items[q].vec)
    IN /\ pq > 0
       /\ pq > cosineSimilarity(items[p].vec, items[r].vec)
       /\ pq > cosineSimilarity(items[q].vec, items[r].vec)

\* C13: with lambda = 0 and k = 2, mmr on two near-duplicates and one distinct
\* item, in any order, never returns both near-duplicates.
C13_NoNearDuplicatePair ==
    (/\ args.fn = "mmr"
     /\ ret.done
     /\ args.lambda = 0
     /\ args.k = 2
     /\ Len(args.items) = 3) =>
        \A p, q, r \in 1..3 :
            ({p, q, r} = 1..3 /\ NearDuplicates(args.items, p, q, r)) =>
                ~(\E i, j \in 1..Len(ret.value) :
                      ret.value[i] = args.items[p].id /\ ret.value[j] = args.items[q].id)

\* the near-duplicates come first in the input and the distinct item is returned
\* second
C13_Witness ==
    /\ args.fn = "mmr"
    /\ ret.done
    /\ args.lambda = 0
    /\ args.k = 2
    /\ Len(args.items) = 3
    /\ NearDuplicates(args.items, 1, 2, 3)
    /\ ret.value = <<args.items[1].id, args.items[3].id>>

----------------------------------------------------------------------------
(* RAGPipeline (src/core/rag/pipeline.ts).  An object is a record that    *)
(* has a field exactly when the property is defined; an optional value is *)
(* a tuple of length 0 or 1 while the inputs are built.  A tag is a       *)
(* sequence of one-character strings.  Importance and time are integers.  *)

MaxTags == 1
MaxTime == 3
MaxImportance == 2
MaxCitations == 2

Opt(S) == {<<>>} \cup {<<x>> : x \in S}
\* the object {name: value}, or {} when the value is not given
Field(name, opt) == IF opt = <<>> THEN <<>> ELSE name :> opt[1]
Has(object, name) == name \in DOMAIN object

TagNames == {<<"a", "b">>, <<"A", "b">>, <<"A", "B">>, <<"c">>}
TagLists == UNION {[1..n -> TagNames] : n \in 0..MaxTags}
Times == 1..MaxTime
Importances == 0..MaxImportance

\* String.prototype.toLowerCase
toLowerCase(s) ==
    [i \in 1..Len(s) |->
        CASE s[i] = "A" -> "a"
          [] s[i] = "B" -> "b"
          [] s[i] = "C" -> "c"
          [] OTHER -> s[i]]

\* Array.prototype.includes
Includes(arr, x) == \E i \in 1..Len(arr) : arr[i] = x

\* filterCandidates, lines 121-123
hasMatchingTag(filterTags, candidateTags) ==
    \E i \in 1..Len(filterTags) : Includes(candidateTags, toLowerCase(filterTags[i]))

InTimeRangeExclusive(occurredAt, start, end) ==
    ~(occurredAt <= start \/ occurredAt >= end)
\* filterCandidates, line 131
InTimeRange(occurredAt, start, end) ==
    ~(occurredAt < start \/ occurredAt > end)

\* the callback of candidates.filter (lines 117-141)
Keeps(candidate, filters) ==
    /\ (Has(filters, "tags") /\ Len(filters.tags) > 0) =>
           hasMatchingTag(filters.tags,
                          IF Has(candidate.metadata, "tags")
                          THEN candidate.metadata.tags ELSE <<>>)
    /\ Has(filters, "timeRange") =>
           InTimeRange(candidate.metadata.occurredAt,
                       filters.timeRange[1], filters.timeRange[2])
    /\ Has(filters, "importance") =>
           LET importance == IF Has(candidate.metadata, "importance")
                             THEN candidate.metadata.importance ELSE 0
           IN ~(importance < filters.importance)

RECURSIVE FilterKept(_, _)
FilterKept(candidates, filters) ==
    IF candidates = <<>> THEN <<>>
    ELSE (IF Keeps(candidates[1], filters) THEN <<candidates[1]>> ELSE <<>>)
             \o FilterKept(Tail(candidates), filters)

\* filterCandidates (lines 106-142)
filterCandidates(candidates, query) ==
    IF ~Has(query, "filters") THEN candidates
    ELSE FilterKept(candidates, query.filters)

\* new Map(filteredCandidates.map(c => [c.id, c.embedding])): the last entry
\* of an id wins
EmbeddingsMap(filtered) ==
    [id \in {filtered[i].id : i \in 1..Len(filtered)} |->
        filtered[SetMax({i \in 1..Len(filtered) : filtered[i].id = id})].embedding]

RECURSIVE SumScores(_)
SumScores(sources) ==
    IF sources = <<>> THEN 0 ELSE sources[1].score + SumScores(Tail(sources))

\* calculateConfidence (lines 191-198): avgScore * sourceCount, as the
\* fraction num / (den * Scale)
calculateConfidence(sources, maxCitations) ==
    IF Len(sources) = 0 THEN [num |-> 0, den |-> 1]
    ELSE [num |-> SumScores(sources) * Min(Len(sources), maxCitations),
          den |-> Len(sources) * maxCitations]

\* generateAnswer (lines 144-183), without the answer text
generateAnswer(sources, maxCitations) ==
    LET cited == Slice(sources, 0, maxCitations)
    IN [citations |-> [i \in 1..Len(cited) |->
                          [chunkId |-> cited[i].id, startOff |-> 0,
                           endOff |-> Len(cited[i].text), score |-> cited[i].score]],
        confidence |-> calculateConfidence(sources, maxCitations),
        sources |-> [i \in 1..Len(sources) |->
                        [id |-> sources[i].id, text |-> sources[i].text,
                         score |-> sources[i].score, startOff |-> 0,
                         endOff |-> Len(sources[i].text)]]]

\* RAGPipeline.query (lines 63-104); queryEmbedding is what generateEmbedding
\* returned for the question
query(queryEmbedding, q, candidates, config) ==
    LET filteredCandidates == filterCandidates(candidates, q)
        mmrCandidates == [i \in 1..Len(filteredCandidates) |->
                             [id |-> filteredCandidates[i].id, score |-> 0,
                              text |-> filteredCandidates[i].text,
                              metadata |-> filteredCandidates[i].metadata]]
        selected == select(queryEmbedding, mmrCandidates,
                           EmbeddingsMap(filteredCandidates),
                           config.mmrLambda, config.topK)
    IN generateAnswer(selected, config.maxCitations)

\* the candidates given to filterCandidates: none or one, with any metadata
FilterCandidates ==
    {<<>>} \cup
    {<<[id |-> "a", text |-> <<"x">>, embedding |-> <<1, 0>>,
        metadata |-> [occurredAt |-> t] @@ Field("tags", ts) @@ Field("importance", imp)]>> :
        t \in Times, ts \in Opt(TagLists), imp \in Opt(Importances)}

FilterQueries ==
    {[question |-> "q"]} \cup
    {[question |-> "q",
      filters |-> Field("tags", ts) @@ Field("timeRange", tr) @@ Field("importance", imp)] :
        ts \in Opt(TagLists), tr \in Opt(Times \X Times), imp \in Opt(Importances)}

CallFilterCandidates ==
    /\ args.fn = "filterCandidates"
    /\ ~ret.done
    /\ ret' = [done |-> TRUE, value |-> filterCandidates(args.candidates, args.query)]
    /\ UNCHANGED <<args, workerVars, chunkVars>>

FilterInit ==
    /\ WorkerIdle
    /\ ChunkIdle
    /\ \E cs \in FilterCandidates, q \in FilterQueries :
           args = [fn |-> "filterCandidates", candidates |-> cs, query |-> q]
    /\ ret = [done |-> FALSE]

\* filterCandidates applied to every bounded candidate and filter
FilterSpec == FilterInit /\ [][CallFilterCandidates]_vars

\* the candidates given to query: distinct ids, any embedding, importance 1
\* or none
QueryCandidates ==
    UNION {{[i \in 1..n |->
                [id |-> ItemIds[i], text |-> [j \in 1..i |-> "x"], embedding |-> vs[i],
                 metadata |-> [occurredAt |-> 1] @@ Field("importance", imps[i])]] :
               vs \in [1..n -> Vecs], imps \in [1..n -> Opt({1})]} : n \in 0..MaxItems}

QueryQueries ==
    {[question |-> "q"], [question |-> "q", filters |-> [importance |-> 1]]}

CallQuery ==
    /\ args.fn = "query"
    /\ ~ret.done
    /\ ret' = [done |-> TRUE,
               value |-> query(args.queryEmbedding, args.query, args.candidates, args.config)]
    /\ UNCHANGED <<args, workerVars, chunkVars>>

QueryInit ==
    /\ WorkerIdle
    /\ ChunkIdle
    /\ \E cs \in QueryCandidates, q \in QueryQueries, e \in Queries,
          lambda \in Lambdas, topK \in 1..MaxK, maxCitations \in 1..MaxCitations :
           args = [fn |-> "query", queryEmbedding |-> e, query |-> q, candidates |-> cs,
                   config |-> [topK |-> topK, mmrLambda |-> lambda,
                               maxCitations |-> maxCitations]]
    /\ ret = [done |-> FALSE]

\* RAGPipeline.query applied to every bounded candidate list and configuration
QuerySpec == QueryInit /\ [][CallQuery]_vars

----------------------------------------------------------------------------
(* Properties of the RAG pipeline *)

\* the cosine relevance of a selected source to the query of the call
SourceRelevance(source) ==
    LET c == Find(args.candidates, source.id)
    IN calculateRelevance(args.queryEmbedding, c.embedding)

RECURSIVE SumRelevance(_)
SumRelevance(sources) ==
    IF sources = <<>> THEN 0
    ELSE SourceRelevance(sources[1]) + SumRelevance(Tail(sources))

\* C14: the confidence of a query result is the mean relevance of the selected
\* items times min(selectedCount / maxCitations, 1), and 0 when no candidate
\* survives filtering.
C14_ConfidenceIsMeanRelevance ==
    (args.fn = "query" /\ ret.done) =>
        LET sources == ret.value.sources
            n == Len(sources)
            confidence == ret.value.confidence
        IN /\ filterCandidates(args.candidates, args.query) = <<>> => confidence.num = 0
           /\ n > 0 =>
                  confidence.num * (n * args.config.maxCitations)
                      = SumRelevance(sources) * Min(n, args.config.maxCitations)
                            * confidence.den

\* C15: a query result has one citation per selected item, in selection order,
\* with the item's id as chunkId and its relevance to the query as score.
C15_CitationPerSelected ==
    (args.fn = "query" /\ ret.done) =>
        /\ Len(ret.value.citations) = Len(ret.value.sources)
        /\ \A i \in 1..Len(ret.value.citations) :
               i <= Len(ret.value.sources) =>
                   /\ ret.value.citations[i].chunkId = ret.value.sources[i].id
                   /\ ret.value.citations[i].score = SourceRelevance(ret.value.sources[i])

\* some tag of the filter equals some tag of the candidate, letter case ignored
TagMatchIgnoringCase(filterTags, candidateTags) ==
    \E i \in 1..Len(filterTags), j \in 1..Len(candidateTags) :
        toLowerCase(filterTags[i]) = toLowerCase(candidateTags[j])

CandidateTags(c) == IF Has(c.metadata, "tags") THEN c.metadata.tags ELSE <<>>
CandidateImportance(c) == IF Has(c.metadata, "importance") THEN c.metadata.importance ELSE 0

TimePasses(c, filters) ==
    Has(filters, "timeRange") =>
        (filters.timeRange[1] <= c.metadata.occurredAt
            /\ c.metadata.occurredAt <= filters.timeRange[2])

ImportancePasses(c, filters) ==
    Has(filters, "importance") => CandidateImportance(c) >= filters.importance

TagsSupplied(filters) == Has(filters, "tags") /\ Len(filters.tags) > 0

\* C16: with a tags filter of at least one tag (and the other filters passed),
\* a candidate survives exactly when a filter tag equals one of its tags
\* ignoring letter case on both sides.
C16_TagsAnyMatchIgnoringCase ==
    (/\ args.fn = "filterCandidates"
     /\ ret.done
     /\ Has(args.query, "filters")
     /\ TagsSupplied(args.query.filters)) =>
        \A i \in 1..Len(args.candidates) :
            LET c == args.candidates[i]
                filters == args.query.filters
            IN (TimePasses(c, filters) /\ ImportancePasses(c, filters)) =>
                   (Includes(ret.value, c)
                        <=> TagMatchIgnoringCase(filters.tags, CandidateTags(c)))

\* C17: a candidate survives filterCandidates exactly when it passes every
\* supplied filter: start <= occurredAt <= end for the time range, importance
\* (0 when missing) >= the floor, the tags filter as evaluated by the code; a
\* filter that is not supplied excludes nothing.
C17_FiltersCompose ==
    (args.fn = "filterCandidates" /\ ret.done) =>
        \A i \in 1..Len(args.candidates) :
            LET c == args.candidates[i] IN
            Includes(ret.value, c) <=>
                (Has(args.query, "filters") =>
                    LET filters == args.query.filters
                    IN /\ TagsSupplied(filters) => hasMatchingTag(filters.tags, CandidateTags(c))
                       /\ TimePasses(c, filters)
                       /\ ImportancePasses(c, filters))

\* all three filters are supplied and the candidate survives on the upper bound
\* of the time range with an importance equal to the floor
C17_Witness ==
    /\ args.fn = "filterCandidates"
    /\ ret.done
    /\ Has(args.query, "filters")
    /\ TagsSupplied(args.query.filters)
    /\ Has(args.query.filters, "timeRange")
    /\ Has(args.query.filters, "importance")
    /\ args.query.filters.importance > 0
    /\ Len(ret.value) = 1
    /\ args.query.filters.timeRange[1] < args.query.filters.timeRange[2]
    /\ ret.value[1].metadata.occurredAt = args.query.filters.timeRange[2]
    /\ CandidateImportance(ret.value[1]) = args.query.filters.importance

----------------------------------------------------------------------------
(* Token-budget packing (core/rag token budget, kept in                   *)
(* src/unnamed/part_004).  maxChars * 0.7 and maxChars * 0.8 are compared *)
(* as exact fractions.                                                    *)

MaxSnippets == 2

Filler(n) == [i \in 1..n |-> "a"]
HeadLens == {0, 4, 70, 170}
Marks == {<<>>, <<".">>, <<" ">>}
TailLens == {0, 60}
\* a run of letters, then nothing, a full stop or a blank, then letters
SnippetTexts == {Filler(h) \o mark \o Filler(t) : h \in HeadLens, mark \in Marks, t \in TailLens}
SnippetScores == {1, 2}
Budgets == {1, 2, 3, 21, 25, 51, 55}
Separator == <<"\n", "\n">>

\* estimateTokens of the token budget module (lines 10-13): Math.ceil(length / 4)
budgetEstimateTokens(txt) == (Len(txt) + 3) \div 4

\* String.prototype.lastIndexOf(ch): 0-based position, or -1
LastIndexOf(s, ch) ==
    LET hits == {i \in 1..Len(s) : s[i] = ch}
    IN IF hits = {} THEN -1 ELSE SetMax(hits) - 1

\* truncateText (lines 19-47)
truncateText(txt, maxTokens) ==
    LET maxChars == maxTokens * 4
        truncated == Slice(txt, 0, maxChars)
        lastSentenceEnd == SetMax({LastIndexOf(truncated, "."),
                                   LastIndexOf(truncated, "!"),
                                   LastIndexOf(truncated, "?")})
        lastSpace == LastIndexOf(truncated, " ")
    IN IF Len(txt) <= maxChars THEN txt
       ELSE IF 10 * lastSentenceEnd > 7 * maxChars THEN Slice(txt, 0, lastSentenceEnd + 1)
       ELSE IF 10 * lastSpace > 8 * maxChars THEN Slice(txt, 0, lastSpace)
       ELSE truncated

\* Array.prototype.join('\n\n')
RECURSIVE JoinBlocks(_)
JoinBlocks(blocks) ==
    IF blocks = <<>> THEN <<>>
    ELSE IF Len(blocks) = 1 THEN blocks[1]
    ELSE blocks[1] \o Separator \o JoinBlocks(Tail(blocks))

\* String.prototype.split('\n\n')
RECURSIVE SplitBlocks(_)
SplitBlocks(s) ==
    LET at == IndexOf(s, Separator, 0)
    IN IF at < 0 THEN <<s>>
       ELSE <<Slice(s, 0, at)>> \o SplitBlocks(Slice(s, at + Len(Separator), Len(s)))

\* the packing loop (lines 71-89 and 112-128): the blocks kept so far, the
\* blocks not looked at yet, the remaining budget, and the least remaining
\* budget for which an overflowing block is truncated
RECURSIVE Pack(_, _, _, _)
Pack(kept, blocks, remainingTokens, minimum) ==
    IF blocks = <<>> THEN kept
    ELSE LET block == blocks[1]
             blockTokens == budgetEstimateTokens(block)
         IN IF blockTokens <= remainingTokens
            THEN Pack(Append(kept, block), Tail(blocks), remainingTokens - blockTokens, minimum)
            ELSE IF remainingTokens > minimum
            THEN LET truncatedBlock == truncateText(block, remainingTokens)
                 IN IF Len(Trim(truncatedBlock)) > 0
                    THEN Append(kept, truncatedBlock)
                    ELSE kept
            ELSE kept

\* enforceTokenBudget (lines 53-92): the returned string and the blocks it is
\* joined from (the whole input as one block when it is returned as it is)
enforceTokenBudget(snippets, maxTokens) ==
    IF Len(snippets) = 0 \/ Len(Trim(snippets)) = 0
    THEN [text |-> snippets, parts |-> <<snippets>>]
    ELSE IF budgetEstimateTokens(snippets) <= maxTokens
    THEN [text |-> snippets, parts |-> <<snippets>>]
    ELSE LET truncatedBlocks == Pack(<<>>, SplitBlocks(snippets), maxTokens, 50)
         IN [text |-> JoinBlocks(truncatedBlocks), parts |-> truncatedBlocks]

\* [...snippets].sort((a, b) => b.score - a.score): stable, descending
RECURSIVE InsertByScore(_, _)
InsertByScore(sorted, snippet) ==
    IF sorted = <<>> THEN <<snippet>>
    ELSE IF sorted[Len(sorted)].score >= snippet.score
         THEN Append(sorted, snippet)
         ELSE Append(InsertByScore(SubSeq(sorted, 1, Len(sorted) - 1), snippet),
                     sorted[Len(sorted)])

SortByScoreInputOrder(snippets) == snippets
RECURSIVE SortByScore(_)
SortByScore(snippets) ==
    IF snippets = <<>> THEN <<>>
    ELSE InsertByScore(SortByScore(SubSeq(snippets, 1, Len(snippets) - 1)),
                       snippets[Len(snippets)])

\* enforceTokenBudgetWithPriority (lines 98-131): the returned string and the
\* snippets it is joined from
enforceTokenBudgetWithPriority(snippets, maxTokens) ==
    IF Len(snippets) = 0 THEN [text |-> <<>>, parts |-> <<>>]
    ELSE LET sortedSnippets == SortByScore(snippets)
             selectedSnippets ==
                 Pack(<<>>, [i \in 1..Len(sortedSnippets) |-> sortedSnippets[i].text],
                      maxTokens, 20)
         IN [text |-> JoinBlocks(selectedSnippets), parts |-> selectedSnippets]

SnippetLists ==
    UNION {[1..n -> [text : SnippetTexts, score : SnippetScores]] : n \in 0..MaxSnippets}

CallEnforceWithPriority ==
    /\ args.fn = "budget"
    /\ ~ret.done
    /\ ret' = [done |-> TRUE, op |-> "enforceTokenBudgetWithPriority",
               value |-> enforceTokenBudgetWithPriority(args.snippets, args.maxTokens)]
    /\ UNCHANGED <<args, workerVars, chunkVars>>

\* enforceTokenBudget on the texts of the snippets joined into context blocks
CallEnforce ==
    /\ args.fn = "budget"
    /\ ~ret.done
    /\ ret' = [done |-> TRUE, op |-> "enforceTokenBudget",
               value |-> enforceTokenBudget(
                             JoinBlocks([i \in 1..Len(args.snippets) |-> args.snippets[i].text]),
                             args.maxTokens)]
    /\ UNCHANGED <<args, workerVars, chunkVars>>

BudgetInit ==
    /\ WorkerIdle
    /\ ChunkIdle
    /\ \E snippets \in SnippetLists, maxTokens \in Budgets :
           args = [fn |-> "budget", snippets |-> snippets, maxTokens |-> maxTokens]
    /\ ret = [done |-> FALSE]

BudgetNext == CallEnforceWithPriority \/ CallEnforce

\* token-budget packing applied to every bounded snippet list and budget
BudgetSpec == BudgetInit /\ [][BudgetNext]_vars

----------------------------------------------------------------------------
(* Properties of token-budget packing *)

\* the input string of the enforceTokenBudget call
BudgetInput == JoinBlocks([i \in 1..Len(args.snippets) |-> args.snippets[i].text])

\* C18: the string returned by enforceTokenBudgetWithPriority, and by
\* enforceTokenBudget on an input over the budget, has an estimated token
\* count (ceil(length / 4), separators included) of at most maxTokens, unless
\* it is made of a single snippet.
C18_WithinBudget ==
    (/\ args.fn = "budget"
     /\ ret.done
     /\ (ret.op = "enforceTokenBudget" =>
             budgetEstimateTokens(BudgetInput) > args.maxTokens)) =>
        \/ budgetEstimateTokens(ret.value.text) <= args.maxTokens
        \/ Len(ret.value.parts) = 1

----------------------------------------------------------------------------
(* AES-GCM envelope (core/crypto/aes, kept in src/core/crypto/index.js).  *)
(* A byte array is a sequence of integers 0..255.  AES-GCM of the         *)
(* platform is counter-mode encryption followed by an authentication tag: *)
(* the bytes are XORed with a key stream that depends on key, nonce and   *)
(* position, and the tag is held as the term (key, nonce, bytes) it       *)
(* authenticates, with the set of its bits that were flipped since.       *)

DekLength == 32
NonceLength == 12
TagBits == 128

Fill(n, first, step) == [i \in 1..n |-> (first + step * i) % 256]

\* key material: two 32-byte keys, a 16-byte key, and one of a length that
\* AES does not accept
Keys == {Fill(32, 1, 3), Fill(32, 2, 5), Fill(16, 9, 1), Fill(31, 1, 3)}
\* DEK candidates: 32 bytes, and lengths wrapDEK refuses
Deks == {Fill(32, 0, 7), Fill(32, 255, 0), Fill(16, 0, 0), Fill(31, 4, 1), Fill(33, 4, 1), <<>>}
\* entry contents given to seal
Plaintexts == {<<>>, Fill(1, 65, 0), Fill(5, 100, 1), Fill(32, 0, 7)}
\* what crypto.getRandomValues(new Uint8Array(12)) may return
Nonces == {Fill(NonceLength, 5, 0), Fill(NonceLength, 0, 11)}

Bit(x, i) == (x \div (2 ^ i)) % 2

RECURSIVE XorBits(_, _, _)
XorBits(a, b, i) ==
    IF i < 0 THEN 0
    ELSE ((Bit(a, i) + Bit(b, i)) % 2) * (2 ^ i) + XorBits(a, b, i - 1)

\* a ^ b on bytes
Xor(a, b) == XorBits(a, b, 7)

RECURSIVE Fold(_)
Fold(bytes) ==
    IF bytes = <<>> THEN 0
    ELSE (Len(bytes) * bytes[Len(bytes)] + Fold(SubSeq(bytes, 1, Len(bytes) - 1))) % 256

\* the key stream byte of AES in counter mode at position i
KeystreamByte(key, iv, i) == (31 * Fold(key) + 17 * Fold(iv) + 101 * i + 7) % 256

\* counter-mode encryption and decryption: XOR with the key stream
Ctr(key, iv, bytes) == [i \in 1..Len(bytes) |-> Xor(bytes[i], KeystreamByte(key, iv, i))]

\* the authentication tag AES-GCM computes over the encrypted bytes
Tag(key, iv, body) == [key |-> key, iv |-> iv, body |-> body, flipped |-> {}]

\* crypto.subtle.importKey('raw', keyMaterial, {name: 'AES-GCM'}, ...) accepts
\* 128, 192 and 256 bit keys (lines 28-36)
importKeyAccepts(keyMaterial) == Len(keyMaterial) \in {16, 24, 32}

\* crypto.subtle.encrypt({name: 'AES-GCM', iv}, key, data): bytes and tag
encrypt(key, iv, data) ==
    LET body == Ctr(key, iv, data)
    IN [body |-> body, tag |-> Tag(key, iv, body)]

TagVerifiesAlways(key, iv, data) == TRUE
\* the tag check of crypto.subtle.decrypt({name: 'AES-GCM', iv}, key, data)
TagVerifies(key, iv, data) == data.tag = Tag(key, iv, data.body)

\* crypto.subtle.decrypt: the plaintext, or an OperationError
decrypt(key, iv, data) ==
    IF TagVerifies(key, iv, data)
    THEN [ok |-> TRUE, value |-> Ctr(key, iv, data.body)]
    ELSE [ok |-> FALSE, error |-> "OperationError"]

ValidDEKAny(dekPlain) == TRUE
\* wrapDEK, line 56
ValidDEK(dekPlain) == Len(dekPlain) = DekLength

\* wrapDEK (lines 52-77) with the nonce generateNonce returned
wrapDEK(kekKey, dekPlain, nonce) ==
    IF ~ValidDEK(dekPlain)
    THEN [ok |-> FALSE, error |-> "DEK must be 256 bits (32 bytes)"]
    ELSE IF ~importKeyAccepts(kekKey)
    THEN [ok |-> FALSE, error |-> "DataError"]
    ELSE [ok |-> TRUE, cipher |-> encrypt(kekKey, nonce, dekPlain), nonce |-> nonce]

\* seal (lines 114-135) with the nonce generateNonce returned
seal(dek, plaintext, nonce) ==
    IF ~importKeyAccepts(dek)
    THEN [ok |-> FALSE, error |-> "DataError"]
    ELSE [ok |-> TRUE, cipher |-> encrypt(dek, nonce, plaintext), nonce |-> nonce]

\* unwrapDEK (lines 87-105)
unwrapDEK(kekKey, wrappedDEK, nonce) ==
    IF ~importKeyAccepts(kekKey)
    THEN [ok |-> FALSE, error |-> "DataError"]
    ELSE LET dekPlain == decrypt(kekKey, nonce, wrappedDEK)
         IN IF dekPlain.ok THEN dekPlain
            ELSE [ok |-> FALSE, error |-> "DEK unwrapping failed"]

\* open (lines 145-163)
open(dek, cipher, nonce) ==
    IF ~importKeyAccepts(dek)
    THEN [ok |-> FALSE, error |-> "DataError"]
    ELSE LET plaintext == decrypt(dek, nonce, cipher)
         IN IF plaintext.ok THEN plaintext
            ELSE [ok |-> FALSE, error |-> "Decryption failed"]

\* tampered[p >> 3] ^= 1 << (p & 7) on a byte array
FlipBit(bytes, p) ==
    [bytes EXCEPT ![(p \div 8) + 1] = Xor(@, 2 ^ (p % 8))]

\* one bit of the stored bytes+tag array is flipped
FlipCipherBit(cipher, p) ==
    IF p < 8 * Len(cipher.body)
    THEN [cipher EXCEPT !.body = FlipBit(@, p)]
    ELSE LET t == p - 8 * Len(cipher.body)
         IN [cipher EXCEPT !.tag.flipped =
                IF t \in @ THEN @ \ {t} ELSE @ \cup {t}]

\* the data put under a key by the call
Datas == Deks \cup Plaintexts

CryptoStage(stage) == args.fn = "crypto" /\ ret.stage = stage

CallWrapDEK ==
    /\ CryptoStage("start")
    /\ args.op = "wrapDEK"
    /\ \E nonce \in Nonces :
           LET w == wrapDEK(args.key, args.data, nonce)
           IN ret' = [done |-> ~w.ok, stage |-> "sealed", sealed |-> w,
                      given |-> IF w.ok
                                THEN [key |-> args.key, cipher |-> w.cipher, nonce |-> w.nonce]
                                ELSE <<>>]
    /\ UNCHANGED <<args, workerVars, chunkVars>>

CallSeal ==
    /\ CryptoStage("start")
    /\ args.op = "seal"
    /\ \E nonce \in Nonces :
           LET s == seal(args.key, args.data, nonce)
           IN ret' = [done |-> ~s.ok, stage |-> "sealed", sealed |-> s,
                      given |-> IF s.ok
                                THEN [key |-> args.key, cipher |-> s.cipher, nonce |-> s.nonce]
                                ELSE <<>>]
    /\ UNCHANGED <<args, workerVars, chunkVars>>

\* between sealing and opening, a bit of the stored bytes is flipped
TamperCipher ==
    /\ CryptoStage("sealed")
    /\ ret.sealed.ok
    /\ \E p \in 0..(8 * Len(ret.given.cipher.body) + TagBits - 1) :
           ret' = [ret EXCEPT !.stage = "changed",
                              !.given.cipher = FlipCipherBit(@, p)]
    /\ UNCHANGED <<args, workerVars, chunkVars>>

\* a bit of the stored nonce is flipped, or another nonce is passed
TamperNonce ==
    /\ CryptoStage("sealed")
    /\ ret.sealed.ok
    /\ \/ \E p \in 0..(8 * NonceLength - 1) :
              ret' = [ret EXCEPT !.stage = "changed", !.given.nonce = FlipBit(@, p)]
       \/ \E nonce \in Nonces \ {ret.given.nonce} :
              ret' = [ret EXCEPT !.stage = "changed", !.given.nonce = nonce]
    /\ UNCHANGED <<args, workerVars, chunkVars>>

\* another key is passed
WrongKey ==
    /\ CryptoStage("sealed")
    /\ ret.sealed.ok
    /\ \E key \in Keys \ {args.key} :
           ret' = [ret EXCEPT !.stage = "changed", !.given.key = key]
    /\ UNCHANGED <<args, workerVars, chunkVars>>

\* the stored bytes are replaced by bytes sealed in another call; a nonce is
\* drawn afresh for every call (generateNonce, lines 41-43), so that call did
\* not use this key with this nonce
SwapCipher ==
    /\ CryptoStage("sealed")
    /\ ret.sealed.ok
    /\ \E key \in {k \in Keys : importKeyAccepts(k)}, nonce \in Nonces, data \in Datas :
           /\ <<key, nonce>> # <<ret.given.key, ret.given.nonce>>
           /\ ret' = [ret EXCEPT !.stage = "changed",
                                 !.given.cipher = encrypt(key, nonce, data)]
    /\ UNCHANGED <<args, workerVars, chunkVars>>

CallUnwrapDEK ==
    /\ CryptoStage("sealed") \/ CryptoStage("changed")
    /\ ret.sealed.ok
    /\ args.op = "wrapDEK"
    /\ ret' = [ret EXCEPT !.done = TRUE, !.stage = "opened"] @@
              [result |-> unwrapDEK(ret.given.key, ret.given.cipher, ret.given.nonce)]
    /\ UNCHANGED <<args, workerVars, chunkVars>>

CallOpen ==
    /\ CryptoStage("sealed") \/ CryptoStage("changed")
    /\ ret.sealed.ok
    /\ args.op = "seal"
    /\ ret' = [ret EXCEPT !.done = TRUE, !.stage = "opened"] @@
              [result |-> open(ret.given.key, ret.given.cipher, ret.given.nonce)]
    /\ UNCHANGED <<args, workerVars, chunkVars>>

CryptoInit ==
    /\ WorkerIdle
    /\ ChunkIdle
    /\ \/ \E key \in Keys, dek \in Deks :
              args = [fn |-> "crypto", op |-> "wrapDEK", key |-> key, data |-> dek]
       \/ \E key \in Keys, plaintext \in Plaintexts :
              args = [fn |-> "crypto", op |-> "seal", key |-> key, data |-> plaintext]
    /\ ret = [done |-> FALSE, stage |-> "start"]

CryptoNext ==
    \/ CallWrapDEK
    \/ CallSeal
    \/ TamperCipher
    \/ TamperNonce
    \/ WrongKey
    \/ SwapCipher
    \/ CallUnwrapDEK
    \/ CallOpen

\* wrap or seal, an optional change of what was stored, unwrap or open
CryptoSpec == CryptoInit /\ [][CryptoNext]_vars

----------------------------------------------------------------------------
(* Properties of the envelope *)

\* what unwrapDEK / open is given is what wrapDEK / seal used and returned
GivenAsSealed ==
    ret.given = [key |-> args.key, cipher |-> ret.sealed.cipher, nonce |-> ret.sealed.nonce]

\* C19: unwrapDEK(kek, w.wrappedDEK, w.nonce) with w = wrapDEK(kek, dek)
\* returns dek, and wrapDEK wraps nothing but 32-byte DEKs.
C19_WrapRoundTrip ==
    (args.fn = "crypto" /\ args.op = "wrapDEK") =>
        /\ (ret.stage # "start" /\ ret.sealed.ok) => Len(args.data) = 32
        /\ (ret.stage = "opened" /\ GivenAsSealed) =>
               (ret.result.ok /\ ret.result.value = args.data)

\* a 32-byte DEK with distinct bytes went through wrapDEK and unwrapDEK, and
\* the wrapped bytes differ from the DEK
C19_Witness ==
    /\ args.fn = "crypto"
    /\ args.op = "wrapDEK"
    /\ ret.stage = "opened"
    /\ GivenAsSealed
    /\ args.data[1] # args.data[2]
    /\ ret.sealed.cipher.body # args.data
    /\ ret.result.ok
    /\ ret.result.value = args.data

\* C20: unwrapDEK and open return plaintext only when key, bytes and nonce are
\* the ones of the wrapDEK / seal call; otherwise they fail with an error that
\* carries no output.
C20_TamperDetected ==
    (args.fn = "crypto" /\ ret.stage = "opened") =>
        /\ ret.result.ok => GivenAsSealed
        /\ ~ret.result.ok => (~Has(ret.result, "value") /\ Has(ret.result, "error"))

\* one bit of a wrapped DEK was flipped and unwrapDEK failed
C20_Witness ==
    /\ args.fn = "crypto"
    /\ args.op = "wrapDEK"
    /\ ret.stage = "opened"
    /\ ret.given.key = args.key
    /\ ret.given.nonce = ret.sealed.nonce
    /\ ret.given.cipher.tag = ret.sealed.cipher.tag
    /\ ret.given.cipher.body # ret.sealed.cipher.body
    /\ ~ret.result.ok
    /\ ret.result.error = "DEK unwrapping failed"

----------------------------------------------------------------------------
(* Key derivation (src/core/crypto/kdf.ts).  A passphrase is held as the   *)
(* bytes TextEncoder gives for it.  PBKDF2 of the platform is a function   *)
(* of passphrase, salt and iteration count whose shorter outputs are the   *)
(* first bytes of its longer ones.                                         *)

DefaultIterations == 100000
DefaultHashLength == 32
MinPassphraseLength == 8
VerifyIterations == 100000
VerifyBits == 256

\* 'passphrase1' and 'wrong-passphrase' of the tests, an 8-character one,
\* 'short', and ''
Passphrases == {Fill(11, 97, 1), Fill(16, 40, 3), Fill(8, 65, 0), Fill(5, 115, 2), <<>>}
\* what crypto.getRandomValues(new Uint8Array(32)) may return
Salts == {Fill(32, 66, 0), Fill(32, 0, 9)}
IterationCounts == {100000, 1000}
HashLengths == {32, 16}
\* Partial<KDFConfig>
KdfConfigs ==
    {Field("iterations", i) @@ Field("hashLength", h) :
        i \in Opt(IterationCounts), h \in Opt(HashLengths)}

\* deriveBits({name: 'PBKDF2', salt, iterations, hash: 'SHA-256'}, key, bits)
Pbkdf2(passphrase, salt, iterations, bits) ==
    [i \in 1..(bits \div 8) |->
        (31 * Fold(passphrase) + 17 * Fold(salt) + 7 * iterations + 101 * i) % 256]

\* { ...DEFAULT_KDF_CONFIG, ...config }
kdfConfigOf(config) ==
    config @@ [iterations |-> DefaultIterations, hashLength |-> DefaultHashLength]

\* deriveKEK (lines 28-70) with the salt getRandomValues returned
deriveKEK(passphrase, config, kdfSalt) ==
    IF Len(passphrase) < MinPassphraseLength
    THEN [ok |-> FALSE, error |-> "Passphrase must be at least 8 characters"]
    ELSE LET kdfConfig == kdfConfigOf(config)
         IN [ok |-> TRUE, kdfSalt |-> kdfSalt,
             kekKey |-> Pbkdf2(passphrase, kdfSalt, kdfConfig.iterations,
                               kdfConfig.hashLength * 8)]

\* verifyPassphrase (lines 80-118); hasTimingSafeEqual tells whether the
\* runtime has a function crypto.subtle.timingSafeEqual: calling it where it
\* is missing is a TypeError, which the catch turns into false
verifyPassphrase(passphrase, kdfSalt, expectedKey, hasTimingSafeEqual) ==
    LET derivedKeyArray == Pbkdf2(passphrase, kdfSalt, VerifyIterations, VerifyBits)
    IN IF Len(derivedKeyArray) # Len(expectedKey) THEN FALSE
       ELSE IF ~hasTimingSafeEqual THEN FALSE
       ELSE derivedKeyArray = expectedKey

CallDeriveKEK ==
    /\ args.fn = "kdf"
    /\ ret.stage = "start"
    /\ \E kdfSalt \in Salts :
           LET r == deriveKEK(args.passphrase, args.config, kdfSalt)
           IN ret' = [done |-> ~r.ok, stage |-> "derived", r |-> r]
    /\ UNCHANGED <<args, workerVars, chunkVars>>

CallVerifyPassphrase ==
    /\ args.fn = "kdf"
    /\ ret.stage = "derived"
    /\ ret.r.ok
    /\ ret' = [ret EXCEPT !.done = TRUE, !.stage = "verified"] @@
              [value |-> verifyPassphrase(args.candidate, ret.r.kdfSalt, ret.r.kekKey,
                                          args.hasTimingSafeEqual)]
    /\ UNCHANGED <<args, workerVars, chunkVars>>

KdfInit ==
    /\ WorkerIdle
    /\ ChunkIdle
    /\ \E passphrase \in Passphrases, candidate \in Passphrases,
          config \in KdfConfigs, hasTimingSafeEqual \in BOOLEAN :
           args = [fn |-> "kdf", passphrase |-> passphrase, config |-> config,
                   candidate |-> candidate, hasTimingSafeEqual |-> hasTimingSafeEqual]
    /\ ret = [done |-> FALSE, stage |-> "start"]

KdfNext ==
    \/ CallDeriveKEK
    \/ CallVerifyPassphrase

\* deriveKEK, then verifyPassphrase with the salt and key it returned
KdfSpec == KdfInit /\ [][KdfNext]_vars

\* the key the candidate passphrase derives under the salt and configuration
\* of the deriveKEK call
CandidateKey ==
    LET kdfConfig == kdfConfigOf(args.config)
    IN Pbkdf2(args.candidate, ret.r.kdfSalt, kdfConfig.iterations, kdfConfig.hashLength * 8)

\* C21: verifyPassphrase(p, r.kdfSalt, r.kekKey) is true for r = deriveKEK(p,
\* config), whatever the configuration, and false for a passphrase that
\* derives a different key.
C21_VerifyAfterDerive ==
    (args.fn = "kdf" /\ ret.stage = "verified") =>
        /\ args.candidate = args.passphrase => ret.value = TRUE
        /\ CandidateKey # ret.r.kekKey => ret.value = FALSE

----------------------------------------------------------------------------
(* The job queue with a larger retry allowance *)

BackoffRetries == 4

\* a worker constructed with batchSize 1 and maxRetries BackoffRetries
BackoffInit ==
    /\ WorkerFields
    /\ batchSize = 1
    /\ maxRetries = BackoffRetries
    /\ ChunkIdle
    /\ CallIdle

BackoffSpec == BackoffInit /\ [][Next]_vars

\* the retry timer of job id
TimerOf(timers, id) == CHOOSE t \in timers : t.job.id = id

\* C22: a job that failed for the r-th time with r < maxRetries waits
\* retryDelay * 2^(r-1) before it is pushed back: its timer is set to that
\* delay, only passing time brings the timer down, one unit at a time, the
\* job is pushed when the timer is at zero, and until then it is neither in
\* the queue nor dispatched.
C22_BackoffDelay ==
    /\ [](\A t \in retryTimers :
              /\ t.job.id \notin (QueueIds \cup InFlightIds)
              /\ Cardinality({u \in retryTimers : u.job.id = t.job.id}) = 1)
    /\ [][\A id \in JobIds :
              /\ (id \in TimerIds' \ TimerIds) =>
                     LET t == TimerOf(retryTimers', id) IN
                     /\ t.job.retries = fails[id]
                     /\ t.job.retries < maxRetries
                     /\ t.remaining = RetryDelay * (2 ^ (t.job.retries - 1))
              /\ (id \in TimerIds \cap TimerIds') =>
                     LET t == TimerOf(retryTimers, id)
                         u == TimerOf(retryTimers', id) IN
                     /\ u.job = t.job
                     /\ u.remaining \in {t.remaining, t.remaining - 1}
                     /\ u.remaining < t.remaining =>
                            (\A v \in retryTimers : v.remaining > 0)
              /\ (id \in TimerIds \ TimerIds') =>
                     /\ TimerOf(retryTimers, id).remaining = 0
                     /\ id \in (QueueIds' \cup InFlightIds')
              /\ (id \in (QueueIds' \cup InFlightIds') \ (QueueIds \cup InFlightIds)) =>
                     (id = nextId \/ id \in TimerIds)]_vars

\* a job failed for the third time and waits 4 * retryDelay
C22_Witness ==
    \E t \in retryTimers :
        /\ t.job.retries = 3
        /\ fails[t.job.id] = 3
        /\ t.remaining = 4 * RetryDelay

----------------------------------------------------------------------------
(* The selection loop, step by step *)

\* the ids of a list of items, in order
IdsOf(items) == [i \in 1..Len(items) |-> items[i].id]

\* the ids still unselected after the picks made so far, in input order
Unselected(ids, picked) ==
    {i \in 1..Len(ids) : \A j \in 1..Len(picked) : picked[j] # ids[i]}

\* lambda * relevance - (1 - lambda) * diversityPenalty of a candidate of
\* select, given the items selected so far
SelectValue(id, selected) ==
    args.lambda * selScores(args.queryEmbedding, args.embeddings)[id]
        - (LambdaDen - args.lambda) * selCalculateDiversity(id, selected, args.embeddings)

\* the same for an item of mmr
MmrValue(id, selected) ==
    args.lambda * MmrRelevance(id)
        - (LambdaDen - args.lambda) * calculateDiversity(id, selected, args.items)

\* the items with these ids, in this order
ItemsOf(ids) == [i \in 1..Len(ids) |-> Find(args.items, ids[i])]

\* C23: every pick of the selection loop is the unselected candidate with the
\* largest lambda * relevance - (1 - lambda) * diversityPenalty, the first in
\* input order among equals, and the loop ends only with maxResults picks or
\* with no candidate left.
C23_GreedyPick ==
    /\ (args.fn = "select" /\ ret.done) =>
           LET ids == IdSet(args.candidates)
               out == IdsOf(ret.value)
           IN /\ Len(out) = Min(args.maxResults, Len(ids))
              /\ \A n \in 1..Len(out) :
                     LET selected == SubSeq(ret.value, 1, n - 1)
                         rest == Unselected(ids, SubSeq(out, 1, n - 1))
                     IN \E p \in rest :
                            /\ ids[p] = out[n]
                            /\ \A r \in rest :
                                   /\ SelectValue(ids[r], selected) <= SelectValue(out[n], selected)
                                   /\ r < p => SelectValue(ids[r], selected)
                                                   < SelectValue(out[n], selected)
    /\ (args.fn = "mmr" /\ ret.done /\ args.k > 0 /\ args.k < Len(args.items)) =>
           LET ids == IdSet(args.items)
               out == ret.value
           IN /\ Len(out) = Min(args.k, Len(ids))
              /\ \A n \in 1..Len(out) :
                     LET selected == ItemsOf(SubSeq(out, 1, n - 1))
                         rest == Unselected(ids, SubSeq(out, 1, n - 1))
                     IN \E p \in rest :
                            /\ ids[p] = out[n]
                            /\ \A r \in rest :
                                   /\ MmrValue(ids[r], selected) <= MmrValue(out[n], selected)
                                   /\ r < p => MmrValue(ids[r], selected)
                                                   < MmrValue(out[n], selected)

----------------------------------------------------------------------------
(* calculateDiversity of mmr.ts on its own *)

\* the items at the positions of `at`, in input order
RECURSIVE Pick(_, _)
Pick(items, at) ==
    IF items = <<>> THEN <<>>
    ELSE LET front == Pick(SubSeq(items, 1, Len(items) - 1), at)
         IN IF Len(items) \in at THEN Append(front, items[Len(items)]) ELSE front

CallCalculateDiversity ==
    /\ args.fn = "calculateDiversity"
    /\ ~ret.done
    /\ ret' = [done |-> TRUE,
               value |-> calculateDiversity(args.candidateId, args.selectedItems, args.allItems)]
    /\ UNCHANGED <<args, workerVars, chunkVars>>

\* a candidate of the item list and, as selected items, any of the others
DiversityInit ==
    /\ WorkerIdle
    /\ ChunkIdle
    /\ \E items \in MmrItems :
       \E c \in 1..Len(items) :
       \E at \in SUBSET ((1..Len(items)) \ {c}) :
           args = [fn |-> "calculateDiversity", candidateId |-> items[c].id,
                   selectedItems |-> Pick(items, at), allItems |-> items]
    /\ ret = [done |-> FALSE]

DiversitySpec == DiversityInit /\ [][CallCalculateDiversity]_vars

\* C24: the diversity penalty of a candidate is the greatest cosine similarity
\* between it and the selected items, negative when all of them are, and 0
\* when nothing is selected.
C24_DiversityIsMaxCosine ==
    (args.fn = "calculateDiversity" /\ ret.done) =>
        LET candidate == Find(args.allItems, args.candidateId)
            sims == {cosineSimilarity(candidate.vec, args.selectedItems[i].vec) :
                        i \in 1..Len(args.selectedItems)}
        IN ret.value = IF args.selectedItems = <<>> THEN 0 ELSE SetMax(sims)

----------------------------------------------------------------------------
(* Order of the packed snippets *)

\* snippets that fit, and snippets cut at a full stop, at a blank, or anywhere
PriorityTexts ==
    {<<>>, Filler(4)} \cup {Filler(h) \o mark \o Filler(60) : h \in {70, 170}, mark \in Marks}
PriorityBudgets == {3, 21, 25, 55}

PriorityInit ==
    /\ WorkerIdle
    /\ ChunkIdle
    /\ \E n \in 0..MaxSnippets :
       \E snippets \in [1..n -> [text : PriorityTexts, score : SnippetScores]],
          maxTokens \in PriorityBudgets :
           args = [fn |-> "budget", snippets |-> snippets, maxTokens |-> maxTokens]
    /\ ret = [done |-> FALSE]

\* enforceTokenBudgetWithPriority applied to every bounded snippet list
PrioritySpec == PriorityInit /\ [][CallEnforceWithPriority]_vars

\* the orders of positions 1..n in which scores do not increase
ScoreOrders(snippets) ==
    {o \in [1..Len(snippets) -> 1..Len(snippets)] :
        /\ \A i, j \in 1..Len(snippets) : i # j => o[i] # o[j]
        /\ \A i, j \in 1..Len(snippets) :
               i < j => snippets[o[i]].score >= snippets[o[j]].score}

IsPrefix(s, t) == Len(s) <= Len(t) /\ SubSeq(t, 1, Len(s)) = s

\* C25: the snippets joined by enforceTokenBudgetWithPriority are the first
\* ones in an order of non-increasing score, each in full except possibly the
\* last, which is then a prefix of its snippet.
C25_PriorityPrefix ==
    (args.fn = "budget" /\ ret.done /\ ret.op = "enforceTokenBudgetWithPriority") =>
        LET parts == ret.value.parts IN
        /\ ret.value.text = JoinBlocks(parts)
        /\ \E o \in ScoreOrders(args.snippets) :
               /\ Len(parts) <= Len(args.snippets)
               /\ \A i \in 1..Len(parts) :
                      IF i < Len(parts)
                      THEN parts[i] = args.snippets[o[i]].text
                      ELSE IsPrefix(parts[i], args.snippets[o[i]].text)

\* the snippet given second has the higher score and is output first, in full,
\* and the other one follows cut short
C25_Witness ==
    /\ args.fn = "budget"
    /\ ret.done
    /\ ret.op = "enforceTokenBudgetWithPriority"
    /\ Len(args.snippets) = 2
    /\ args.snippets[2].score > args.snippets[1].score
    /\ Len(ret.value.parts) = 2
    /\ ret.value.parts[1] = args.snippets[2].text
    /\ ret.value.parts[1] # args.snippets[1].text
    /\ Len(ret.value.parts[2]) < Len(args.snippets[1].text)
    /\ IsPrefix(ret.value.parts[2], args.snippets[1].text)

----------------------------------------------------------------------------
(* Size of the chunks *)

\* the whitespace-separated words of a chunk text
WordsOf(t) == SplitRuns(t, Spaces)

\* C26: a chunk of chunkText (JavaScript) with more than one word has an
\* estimated token count, ceil(length / 3), of at most targetTokens.
C26_ChunkWithinTarget ==
    (op = "chunkText") =>
        \A i \in 1..Len(chunks) :
            Len(WordsOf(chunks[i].text)) > 1 =>
                (Len(chunks[i].text) + 2) \div 3 <= targetTokens

----------------------------------------------------------------------------
(* Where a job is *)

\* the number of places job id is in: queue positions, positions of in-flight
\* batches whose result is not handled yet, retry timers, and terminal
\* notifications
QueuePlaces(id) == Cardinality({i \in 1..Len(queue) : queue[i].id = id})
BatchPlaces(id) ==
    Cardinality({<<r, i>> \in runs \X (1..MaxBatchSize) :
                    i \in (r.handled + 1)..Len(r.batch) /\ r.batch[i].id = id})
TimerPlaces(id) == Cardinality({t \in retryTimers : t.job.id = id})
Places(id) ==
    QueuePlaces(id) + BatchPlaces(id) + TimerPlaces(id) + jobSuccess[id] + jobFailed[id]

\* C27: without clearQueue, every job added is in exactly one place: the
\* queue, the in-flight batch, a retry timer, notified as succeeded, or
\* notified as failed; a job not added yet is nowhere.
C27_OnePlace ==
    \A id \in JobIds : Places(id) = IF Added(id) THEN 1 ELSE 0

\* one job waits for its retry while another, which failed before, is in flight
C27_Witness ==
    \E a, b \in JobIds :
        /\ TimerPlaces(a) = 1
        /\ BatchPlaces(b) = 1
        /\ fails[b] > 0
        /\ Places(a) = 1
        /\ Places(b) = 1

----------------------------------------------------------------------------
(* Idle with jobs waiting *)

\* a processQueue call is scheduled by a continuation timer
ContinuationScheduled == \E d \in 0..ContinueDelay : contTimers[d] > 0

\* C28: whenever no batch is in flight and the queue is not empty, a
\* continuation timer is pending, and the worker does not stay in that
\* situation.
C28_NeverIdleWithJobs ==
    /\ []((~isProcessing /\ runs = {} /\ queue # <<>>) => ContinuationScheduled)
    /\ ((~isProcessing /\ queue # <<>>) ~> (isProcessing \/ queue = <<>>))

\* a job pushed while a batch was in flight waits in the queue of the idle
\* worker for the continuation timer
C28_Witness ==
    /\ ~isProcessing
    /\ runs = {}
    /\ queue # <<>>
    /\ ContinuationScheduled
    /\ \E i \in 1..Len(queue) : queue[i].retries > 0

----------------------------------------------------------------------------
(* After clearQueue *)

\* job id was waiting in the queue when clearQueue was called: it was added,
\* and is in no place any more
Dropped(id) == Added(id) /\ Places(id) = 0

\* job id waits for its retry delay and the queue is empty: the state a
\* clearQueue call leaves when it is made while the job waits (a call on an
\* empty queue changes nothing)
ClearedWhileWaiting(id) == queue = <<>> /\ id \in TimerIds

\* C29: a job that was in the queue or waiting for its retry delay when
\* clearQueue was called is never dispatched afterwards.
C29_ClearedNeverDispatched ==
    \A id \in JobIds :
        []((Dropped(id) \/ ClearedWhileWaiting(id)) => [](id \notin InFlightIds))

----------------------------------------------------------------------------
(* The caller's array *)

\* C30: after mmr(items, queryVec, lambda, k) the items array holds the same
\* elements in the same order as before the call.
C30_ItemsUnchanged ==
    (args.fn = "mmr" /\ ret.done) => ret.items = args.items

====
